---- MODULE Spec2Model ----
(***************************************************************************)
(* A model of the Flux compiler (src/Compiler/Rust/Flux.rs): the lexer,    *)
(* the recursive-descent parser, the semantic analyzer, the AST optimizer  *)
(* and the driver FluxCompiler::compile.                                   *)
(*                                                                         *)
(* Source text is a sequence of one-character strings.  Numbers (f64 in    *)
(* the code) are exact rationals <<numerator, denominator>>; the literals  *)
(* the model draws are small, so + - * are exact in both.  The lexer's     *)
(* line/column counters only feed a diagnostic on stderr and are left out. *)
(***************************************************************************)
EXTENDS Integers, Sequences, FiniteSets, TLC

VARIABLES
    source,        \* the text handed to FluxCompiler::compile
    pc,            \* position of compile: "lex", "parse", "analyze", "generate", "done", "idle"
    position,      \* Lexer.position
    use_braces,    \* Lexer.use_braces
    tokens,        \* the token vector tokenize is building / has returned
    ast,           \* the parser's result (a Result record)
    analysis,      \* the SemanticAnalyzer after analyze (symbol table, errors, timestamp)
    result,        \* what compile returned
    ran,           \* the stages that have run, in order
    opt_in,        \* the tree handed to ASTOptimizer::optimize
    tree,          \* that tree after the passes applied so far
    passes,        \* number of optimize calls applied to tree
    visited,       \* number of statements of the Program the analyzer has visited
    manager,       \* a TemporalManager (timelines, current_time)
    got            \* what the last call on the TemporalManager returned

vars == <<source, pc, position, use_braces, tokens, ast, analysis, result, ran,
          opt_in, tree, passes, visited, manager, got>>

(***************************************************************************)
(* Characters                                                              *)
(***************************************************************************)
None == ""

Digits == {"0", "1", "2", "3", "4", "5", "6", "7", "8", "9"}

Letters == {"a", "b", "c", "d", "e", "f", "g", "h", "i", "j", "k", "l", "m",
            "n", "o", "p", "q", "r", "s", "t", "u", "v", "w", "x", "y", "z",
            "A", "B", "C", "D", "E", "F", "G", "H", "I", "J", "K", "L", "M",
            "N", "O", "P", "Q", "R", "S", "T", "U", "V", "W", "X", "Y", "Z"}

DigitVal(ch) ==
    CASE ch = "0" -> 0 [] ch = "1" -> 1 [] ch = "2" -> 2 [] ch = "3" -> 3
      [] ch = "4" -> 4 [] ch = "5" -> 5 [] ch = "6" -> 6 [] ch = "7" -> 7
      [] ch = "8" -> 8 [] ch = "9" -> 9

(***************************************************************************)
(* Numbers: exact rationals in lowest terms with a positive denominator    *)
(***************************************************************************)
Abs(n) == IF n < 0 THEN -n ELSE n

RECURSIVE GCD(_, _)
GCD(a, b) == IF b = 0 THEN a ELSE GCD(b, a % b)

Rat(n, d) ==
    LET g == GCD(Abs(n), Abs(d))
        s == IF d < 0 THEN -1 ELSE 1
    IN  IF n = 0 THEN <<0, 1>> ELSE <<(s * n) \div g, (s * d) \div g>>

Whole(n) == <<n, 1>>

RatAdd(l, r) == Rat(l[1] * r[2] + r[1] * l[2], l[2] * r[2])
RatSub(l, r) == Rat(l[1] * r[2] - r[1] * l[2], l[2] * r[2])
RatMul(l, r) == Rat(l[1] * r[1], l[2] * r[2])
RatDiv(l, r) == Rat(l[1] * r[2], l[2] * r[1])
RatNeg(n)    == <<-n[1], n[2]>>

RECURSIVE Pow10(_)
Pow10(k) == IF k = 0 THEN 1 ELSE 10 * Pow10(k - 1)

(***************************************************************************)
(* LEXER                                                                   *)
(* A lexer value is the record [input, position, use_braces, tokens].      *)
(***************************************************************************)
Tok(t) == [type |-> t]
TokText(t, s) == [type |-> t, text |-> s]
TokNumber(n) == [type |-> "Number", num |-> n]
TokBoolean(b) == [type |-> "Boolean", bool |-> b]

NewLexer(input) ==
    [input |-> input, position |-> 0, use_braces |-> TRUE, tokens |-> <<>>]

current_char(L) ==
    IF L.position < Len(L.input) THEN L.input[L.position + 1] ELSE None

lex_advance(L) == [L EXCEPT !.position = @ + 1]

lex_peek(L, offset) ==
    IF L.position + offset < Len(L.input) THEN L.input[L.position + offset + 1] ELSE None

push(L, t) == [L EXCEPT !.tokens = Append(@, t)]

RECURSIVE skip_whitespace(_)
skip_whitespace(L) ==
    IF current_char(L) \in {" ", "\t", "\r"} THEN skip_whitespace(lex_advance(L)) ELSE L

\* The characters read_number collects: digits and dots, as long as they last.
RECURSIVE read_number_str(_, _)
read_number_str(L, acc) ==
    LET ch == current_char(L)
    IN  IF ch \in Digits \/ ch = "."
        THEN read_number_str(lex_advance(L), Append(acc, ch))
        ELSE [lexer |-> L, str |-> acc]

\* str::parse::<f64>().unwrap_or(0.0) on a string of digits and dots: more
\* than one dot, or no digit at all, is a parse error and yields 0.0.
RECURSIVE DigitsValue(_, _)
DigitsValue(str, acc) ==
    IF str = <<>> THEN acc
    ELSE IF Head(str) = "." THEN DigitsValue(Tail(str), acc)
    ELSE DigitsValue(Tail(str), 10 * acc + DigitVal(Head(str)))

DotPositions(str) == {i \in 1..Len(str) : str[i] = "."}

parse_f64(str) ==
    LET dots == DotPositions(str)
    IN  IF Cardinality(dots) > 1 \/ Len(str) = Cardinality(dots) THEN Whole(0)
        ELSE IF dots = {} THEN Whole(DigitsValue(str, 0))
        ELSE LET p == CHOOSE i \in dots : TRUE
             IN  Rat(DigitsValue(str, 0), Pow10(Len(str) - p))

read_number(L) ==
    LET r == read_number_str(L, <<>>)
    IN  [lexer |-> r.lexer, value |-> parse_f64(r.str)]

RECURSIVE read_identifier_from(_, _)
read_identifier_from(L, acc) ==
    LET ch == current_char(L)
    IN  IF ch \in Letters \/ ch \in Digits \/ ch = "_"
        THEN read_identifier_from(lex_advance(L), acc \o ch)
        ELSE [lexer |-> L, value |-> acc]

read_identifier(L) == read_identifier_from(L, "")

EscapeChar(ch) ==
    CASE ch = "n" -> "\n" [] ch = "t" -> "\t" [] ch = "r" -> "\r" [] OTHER -> ch

RECURSIVE read_string_from(_, _)
read_string_from(L, acc) ==
    LET ch == current_char(L)
    IN  IF ch = None THEN [lexer |-> L, value |-> acc]
        ELSE IF ch = "\"" THEN [lexer |-> lex_advance(L), value |-> acc]
        ELSE IF ch = "\\"
             THEN LET L1 == lex_advance(L)
                      e  == current_char(L1)
                  IN  IF e = None THEN [lexer |-> L1, value |-> acc]
                      ELSE read_string_from(lex_advance(L1), acc \o EscapeChar(e))
        ELSE read_string_from(lex_advance(L), acc \o ch)

read_string(L) == read_string_from(lex_advance(L), "")

\* A plausible slip: `no_braces` is not recognised.
handle_pragma_indent_only(L, pragma_content) ==
    CASE pragma_content = "braces" -> [L EXCEPT !.use_braces = TRUE]
      [] pragma_content = "indent" -> [L EXCEPT !.use_braces = FALSE]
      [] OTHER -> L

handle_pragma(L, pragma_content) ==
    CASE pragma_content = "braces" -> [L EXCEPT !.use_braces = TRUE]
      [] pragma_content \in {"indent", "no_braces"} -> [L EXCEPT !.use_braces = FALSE]
      [] OTHER -> L

RECURSIVE skip_comment(_)
skip_comment(L) ==
    IF current_char(L) # None /\ current_char(L) # "\n" THEN skip_comment(lex_advance(L)) ELSE L

Keywords == {"let", "const", "func", "return", "if", "else", "while", "for",
             "class", "extends", "new", "this", "super", "import", "export",
             "match", "case", "default", "temporal", "freeze", "thaw", "timeline"}

KeywordType(id) ==
    CASE id = "let" -> "Let" [] id = "const" -> "Const" [] id = "func" -> "Func"
      [] id = "return" -> "Return" [] id = "if" -> "If" [] id = "else" -> "Else"
      [] id = "while" -> "While" [] id = "for" -> "For" [] id = "class" -> "Class"
      [] id = "extends" -> "Extends" [] id = "new" -> "New" [] id = "this" -> "This"
      [] id = "super" -> "Super" [] id = "import" -> "Import" [] id = "export" -> "Export"
      [] id = "match" -> "Match" [] id = "case" -> "Case" [] id = "default" -> "Default"
      [] id = "temporal" -> "Temporal" [] id = "freeze" -> "Freeze" [] id = "thaw" -> "Thaw"
      [] id = "timeline" -> "Timeline"

identifier_token(id) ==
    IF id \in Keywords THEN Tok(KeywordType(id))
    ELSE IF id = "true" THEN TokBoolean(TRUE)
    ELSE IF id = "false" THEN TokBoolean(FALSE)
    ELSE TokText("Identifier", id)

\* '#': a pragma when the next character is 'p' and the word read is "pragma",
\* a comment skipped to the end of the line when the next character is not 'p'.
lex_hash(L) ==
    LET L1 == lex_advance(L)
    IN  IF current_char(L1) = "p"
        THEN LET w == read_identifier(L1)
             IN  IF w.value = "pragma"
                 THEN LET c == read_identifier(skip_whitespace(w.lexer))
                      IN  push(handle_pragma(c.lexer, c.value), TokText("Pragma", c.value))
                 ELSE w.lexer
        ELSE skip_comment(L1)

\* An operator character that may be followed by a second one.
lex_two(L, second, both, single) ==
    LET L1 == lex_advance(L)
    IN  IF current_char(L1) = second THEN lex_advance(push(L1, Tok(both)))
        ELSE push(L1, Tok(single))

\* A plausible slip: the lone dot is pushed without advancing past it.
lex_dot_stuck(L) ==
    IF lex_peek(L, 1) \in Digits
    THEN LET n == read_number(L) IN push(n.lexer, TokNumber(n.value))
    ELSE push(L, Tok("Dot"))

lex_dot(L) ==
    IF lex_peek(L, 1) \in Digits
    THEN LET n == read_number(L) IN push(n.lexer, TokNumber(n.value))
    ELSE lex_advance(push(L, Tok("Dot")))

SingleCharType(ch) ==
    CASE ch = "+" -> "Plus" [] ch = "*" -> "Multiply" [] ch = "/" -> "Divide"
      [] ch = "%" -> "Modulo" [] ch = "(" -> "LeftParen" [] ch = ")" -> "RightParen"
      [] ch = "[" -> "LeftBracket" [] ch = "]" -> "RightBracket" [] ch = "," -> "Comma"
      [] ch = ";" -> "Semicolon" [] ch = ":" -> "Colon" [] ch = "?" -> "Question"

SingleChars == {"+", "*", "/", "%", "(", ")", "[", "]", ",", ";", ":", "?"}

\* One iteration of the loop of Lexer::tokenize (current_char is Some).
tokenize_step(L) ==
    LET ch == current_char(L)
    IN  CASE ch \in {" ", "\t", "\r"} -> skip_whitespace(L)
          [] ch = "\n" -> lex_advance(IF ~L.use_braces THEN push(L, Tok("Newline")) ELSE L)
          [] ch = "#" -> lex_hash(L)
          [] ch \in SingleChars -> lex_advance(push(L, Tok(SingleCharType(ch))))
          [] ch = "-" -> lex_two(L, ">", "Arrow", "Minus")
          [] ch = "=" ->
                LET L1 == lex_advance(L)
                IN  IF current_char(L1) = "=" THEN lex_advance(push(L1, Tok("Equal")))
                    ELSE IF current_char(L1) = ">" THEN lex_advance(push(L1, Tok("FatArrow")))
                    ELSE push(L1, Tok("Assign"))
          [] ch = "!" -> lex_two(L, "=", "NotEqual", "Not")
          [] ch = "<" -> lex_two(L, "=", "LessEqual", "Less")
          [] ch = ">" -> lex_two(L, "=", "GreaterEqual", "Greater")
          [] ch = "&" ->
                LET L1 == lex_advance(L)
                IN  IF current_char(L1) = "&" THEN lex_advance(push(L1, Tok("And"))) ELSE L1
          [] ch = "|" -> lex_two(L, "|", "Or", "Pipe")
          [] ch = "{" -> lex_advance(IF L.use_braces THEN push(L, Tok("LeftBrace")) ELSE L)
          [] ch = "}" -> lex_advance(IF L.use_braces THEN push(L, Tok("RightBrace")) ELSE L)
          [] ch = "." -> lex_dot(L)
          [] ch = "\"" -> LET s == read_string(L) IN push(s.lexer, TokText("String", s.value))
          [] ch \in Digits -> LET n == read_number(L) IN push(n.lexer, TokNumber(n.value))
          [] ch \in Letters \/ ch = "_" ->
                LET i == read_identifier(L) IN push(i.lexer, identifier_token(i.value))
          [] OTHER -> lex_advance(L)

\* Lexer::tokenize as a whole: the loop, then the EOF token.
RECURSIVE tokenize_loop(_)
tokenize_loop(L) ==
    IF current_char(L) # None THEN tokenize_loop(tokenize_step(L)) ELSE L

tokenize(input) == push(tokenize_loop(NewLexer(input)), Tok("EOF")).tokens

(***************************************************************************)
(* AST                                                                     *)
(* Option<T> is a sequence of length 0 (None) or 1 (Some).                 *)
(***************************************************************************)
NoneOpt == <<>>
Some(v) == <<v>>

Program(statements) == [kind |-> "Program", statements |-> statements]
VarDecl(name, value, is_const, is_temporal) ==
    [kind |-> "VarDecl", name |-> name, value |-> value,
     is_const |-> is_const, is_temporal |-> is_temporal]
Assignment(name, value) == [kind |-> "Assignment", name |-> name, value |-> value]
FunctionDecl(name, params, body) ==
    [kind |-> "FunctionDecl", name |-> name, params |-> params, body |-> body]
ClassDecl(name, superclass, methods) ==
    [kind |-> "ClassDecl", name |-> name, superclass |-> superclass, methods |-> methods]
Return(value) == [kind |-> "Return", value |-> value]
If(condition, then_branch, else_branch) ==
    [kind |-> "If", condition |-> condition, then_branch |-> then_branch,
     else_branch |-> else_branch]
While(condition, body) == [kind |-> "While", condition |-> condition, body |-> body]
Binary(left, operator, right) ==
    [kind |-> "Binary", left |-> left, operator |-> operator, right |-> right]
Unary(operator, operand) == [kind |-> "Unary", operator |-> operator, operand |-> operand]
Call(callee, args) == [kind |-> "Call", callee |-> callee, args |-> args]
MemberAccess(object, property) ==
    [kind |-> "MemberAccess", object |-> object, property |-> property]
Number(n) == [kind |-> "Number", num |-> n]
String(s) == [kind |-> "String", text |-> s]
Boolean(b) == [kind |-> "Boolean", bool |-> b]
Identifier(name) == [kind |-> "Identifier", name |-> name]
TemporalAccess(var, timestamp) ==
    [kind |-> "TemporalAccess", var |-> var, timestamp |-> timestamp]
Pipeline(exprs) == [kind |-> "Pipeline", exprs |-> exprs]
Match(expr, cases) == [kind |-> "Match", expr |-> expr, cases |-> cases]

(***************************************************************************)
(* PARSER                                                                  *)
(* Every parse function takes the token vector and Parser.current and      *)
(* returns Ok(node) or Err(message) together with the new current.         *)
(***************************************************************************)
POk(node, cur) == [ok |-> TRUE, node |-> node, cur |-> cur]
PErr(err, cur) == [ok |-> FALSE, err |-> err, cur |-> cur]

peek(toks, cur) == IF cur < Len(toks) THEN toks[cur + 1] ELSE Tok("EOF")

advance(toks, cur) == IF cur < Len(toks) THEN cur + 1 ELSE cur

\* A plausible slip: a missing token is tolerated and parsing goes on.
consume_lenient(toks, cur, expected) ==
    IF peek(toks, cur).type = expected
    THEN POk(NoneOpt, advance(toks, cur))
    ELSE POk(NoneOpt, cur)

consume(toks, cur, expected) ==
    IF peek(toks, cur).type = expected
    THEN POk(NoneOpt, advance(toks, cur))
    ELSE PErr([msg |-> "Expected", expected |-> expected, found |-> peek(toks, cur)], cur)

RECURSIVE parse_statement(_, _), statements_until_brace(_, _), parse_var_decl(_, _, _, _),
          parse_function(_, _), parse_params(_, _, _), parse_class(_, _),
          parse_methods(_, _), parse_return(_, _), parse_if(_, _), parse_while(_, _),
          parse_match(_, _), match_cases(_, _), parse_expression(_, _),
          parse_pipeline(_, _), pipeline_loop(_, _), parse_logical_or(_, _),
          logical_or_loop(_, _), parse_logical_and(_, _), logical_and_loop(_, _),
          parse_equality(_, _), equality_loop(_, _), parse_comparison(_, _),
          comparison_loop(_, _), parse_addition(_, _), addition_loop(_, _),
          parse_multiplication(_, _), multiplication_loop(_, _), parse_unary(_, _),
          parse_call(_, _), call_loop(_, _), call_args(_, _), skip_comma(_, _),
          parse_primary(_, _), descend(_, _, _)

\* `v.push(f()?)`: the node of r is pushed on the vector of acc; an error of r is
\* returned as it is.
append(acc, r) == IF ~r.ok THEN r ELSE POk(Append(acc.node, r.node), r.cur)

\* `self.consume(expected)?` after the successful result r, whose node is kept.
expect(toks, r, expected) ==
    IF ~r.ok THEN r
    ELSE IF consume(toks, r.cur, expected).ok
    THEN POk(r.node, consume(toks, r.cur, expected).cur)
    ELSE consume(toks, r.cur, expected)

\* `let value = self.parse_expression()?`: the value joins the parts read so far.
then_expression(toks, parts) ==
    IF ~parts.ok THEN parts ELSE append(parts, parse_expression(toks, parts.cur))

\* `{` statements `}`: consume(LeftBrace), the loop, consume(RightBrace).
block(toks, cur) ==
    expect(toks,
           statements_until_brace(toks, expect(toks, POk(<<>>, cur), "LeftBrace")),
           "RightBrace")

\* The braced statement vector joins the parts read so far.
then_block(toks, parts) ==
    IF ~parts.ok THEN parts ELSE append(parts, block(toks, parts.cur))

\* Parser::parse: statements up to EOF, Pragma tokens skipped.
RECURSIVE parse_loop(_, _)
\* A plausible slip: Pragma tokens are handed to parse_statement like any other.
parse_loop_keeping_pragmas(toks, statements) ==
    IF ~statements.ok THEN statements
    ELSE IF peek(toks, statements.cur).type = "EOF"
    THEN POk(Program(statements.node), statements.cur)
    ELSE parse_loop(toks, append(statements, parse_statement(toks, statements.cur)))

parse_loop(toks, statements) ==
    IF ~statements.ok THEN statements
    ELSE IF peek(toks, statements.cur).type = "EOF"
    THEN POk(Program(statements.node), statements.cur)
    ELSE IF peek(toks, statements.cur).type = "Pragma"
    THEN parse_loop(toks, POk(statements.node, advance(toks, statements.cur)))
    ELSE parse_loop(toks, append(statements, parse_statement(toks, statements.cur)))

parse(toks) == parse_loop(toks, POk(<<>>, 0))

parse_statement(toks, cur) ==
    LET t == peek(toks, cur).type
    IN  CASE t = "Let" -> parse_var_decl(toks, cur, FALSE, FALSE)
          [] t = "Const" -> parse_var_decl(toks, cur, TRUE, FALSE)
          [] t = "Temporal" ->
                LET c1 == advance(toks, cur)
                    t1 == peek(toks, c1).type
                IN  CASE t1 = "Let" -> parse_var_decl(toks, c1, FALSE, TRUE)
                      [] t1 = "Const" -> parse_var_decl(toks, c1, TRUE, TRUE)
                      [] OTHER -> PErr([msg |-> "Expected 'let' or 'const' after 'temporal'"], c1)
          [] t = "Func" -> parse_function(toks, cur)
          [] t = "Class" -> parse_class(toks, cur)
          [] t = "Return" -> parse_return(toks, cur)
          [] t = "If" -> parse_if(toks, cur)
          [] t = "While" -> parse_while(toks, cur)
          [] t = "Match" -> parse_match(toks, cur)
          [] OTHER -> parse_expression(toks, cur)

\* The loop `while !matches!(self.peek(), RightBrace) { v.push(self.parse_statement()?) }`
\* of a function body, an if/else/while block and a braced match-case body.
statements_until_brace(toks, acc) ==
    IF ~acc.ok THEN acc
    ELSE IF peek(toks, acc.cur).type = "RightBrace" THEN acc
    ELSE statements_until_brace(toks, append(acc, parse_statement(toks, acc.cur)))

\* `Ok(VarDecl { name, value: Box::new(value), is_const, is_temporal })`.
var_decl_node(name, is_const, is_temporal, parts) ==
    IF ~parts.ok THEN parts
    ELSE POk(VarDecl(name, parts.node[1], is_const, is_temporal), parts.cur)

parse_var_decl(toks, cur, is_const, is_temporal) ==
    LET c1 == advance(toks, cur)
    IN  IF peek(toks, c1).type = "Identifier"
        THEN var_decl_node(peek(toks, c1).text, is_const, is_temporal,
                 then_expression(toks, expect(toks, POk(<<>>, advance(toks, c1)), "Assign")))
        ELSE PErr([msg |-> "Expected identifier after variable declaration"], c1)

parse_params(toks, cur, params) ==
    IF peek(toks, cur).type = "RightParen" THEN POk(params, cur)
    ELSE IF peek(toks, cur).type = "Identifier"
    THEN LET c1 == advance(toks, cur)
             c2 == IF peek(toks, c1).type = "Comma" THEN advance(toks, c1) ELSE c1
         IN  parse_params(toks, c2, Append(params, peek(toks, cur).text))
    ELSE PErr([msg |-> "Expected parameter name"], cur)

\* The parameter vector joins the parts read so far.
then_params(toks, parts) ==
    IF ~parts.ok THEN parts ELSE append(parts, parse_params(toks, parts.cur, <<>>))

\* `Ok(FunctionDecl { name, params, body })`.
function_node(name, parts) ==
    IF ~parts.ok THEN parts
    ELSE POk(FunctionDecl(name, parts.node[1], parts.node[2]), parts.cur)

parse_function(toks, cur) ==
    LET c1 == advance(toks, cur)
    IN  IF peek(toks, c1).type # "Identifier" THEN PErr([msg |-> "Expected function name"], c1)
        ELSE function_node(peek(toks, c1).text,
                 then_block(toks,
                     expect(toks,
                         then_params(toks,
                             expect(toks, POk(<<>>, advance(toks, c1)), "LeftParen")),
                         "RightParen")))

parse_methods(toks, methods) ==
    IF ~methods.ok THEN methods
    ELSE IF peek(toks, methods.cur).type = "RightBrace" THEN methods
    ELSE parse_methods(toks, append(methods, parse_function(toks, methods.cur)))

\* `Ok(ClassDecl { name, superclass, methods })`.
class_node(name, superclass, methods) ==
    IF ~methods.ok THEN methods
    ELSE POk(ClassDecl(name, superclass, methods.node), methods.cur)

parse_class(toks, cur) ==
    LET c1 == advance(toks, cur)
    IN  IF peek(toks, c1).type # "Identifier" THEN PErr([msg |-> "Expected class name"], c1)
        ELSE LET name == peek(toks, c1).text
                 c2 == advance(toks, c1)
                 ext == peek(toks, c2).type = "Extends"
                 c3 == IF ext THEN advance(toks, c2) ELSE c2
             IN  IF ext /\ peek(toks, c3).type # "Identifier"
                 THEN PErr([msg |-> "Expected superclass name"], c3)
                 ELSE LET superclass == IF ext THEN Some(peek(toks, c3).text) ELSE NoneOpt
                          c4 == IF ext THEN advance(toks, c3) ELSE c3
                      IN  class_node(name, superclass,
                              expect(toks,
                                  parse_methods(toks, expect(toks, POk(<<>>, c4), "LeftBrace")),
                                  "RightBrace"))

\* `Ok(Return(Box::new(value)))`.
return_node(value) == IF ~value.ok THEN value ELSE POk(Return(value.node), value.cur)

parse_return(toks, cur) == return_node(parse_expression(toks, advance(toks, cur)))

\* The optional `else { ... }` after the then-branch.
else_branch(toks, parts) ==
    IF ~parts.ok THEN parts
    ELSE IF peek(toks, parts.cur).type = "Else"
    THEN then_block(toks, POk(parts.node, advance(toks, parts.cur)))
    ELSE parts

\* `Ok(If { condition, then_branch, else_branch })`.
if_node(parts) ==
    IF ~parts.ok THEN parts
    ELSE POk(If(parts.node[1], parts.node[2],
                IF Len(parts.node) = 3 THEN Some(parts.node[3]) ELSE NoneOpt),
             parts.cur)

parse_if(toks, cur) ==
    if_node(else_branch(toks,
                then_block(toks, then_expression(toks, POk(<<>>, advance(toks, cur))))))

\* `Ok(While { condition, body })`.
while_node(parts) ==
    IF ~parts.ok THEN parts ELSE POk(While(parts.node[1], parts.node[2]), parts.cur)

parse_while(toks, cur) ==
    while_node(then_block(toks, then_expression(toks, POk(<<>>, advance(toks, cur)))))

\* `vec![self.parse_statement()?]`.
statements_of(s) == IF ~s.ok THEN s ELSE POk(<<s.node>>, s.cur)

\* The body of one case: a braced block, or one statement in a one-element vector.
case_body(toks, parts) ==
    IF ~parts.ok THEN parts
    ELSE IF peek(toks, parts.cur).type = "LeftBrace" THEN then_block(toks, parts)
    ELSE append(parts, statements_of(parse_statement(toks, parts.cur)))

match_cases(toks, cases) ==
    IF ~cases.ok THEN cases
    ELSE IF peek(toks, cases.cur).type = "RightBrace" THEN cases
    ELSE match_cases(toks,
             append(cases,
                 case_body(toks,
                     expect(toks, then_expression(toks, POk(<<>>, cases.cur)), "FatArrow"))))

\* The case vector joins the parts read so far.
then_cases(toks, parts) ==
    IF ~parts.ok THEN parts ELSE append(parts, match_cases(toks, POk(<<>>, parts.cur)))

\* `Ok(Match { expr, cases })`.
match_node(parts) ==
    IF ~parts.ok THEN parts ELSE POk(Match(parts.node[1], parts.node[2]), parts.cur)

parse_match(toks, cur) ==
    match_node(
        expect(toks,
            then_cases(toks,
                expect(toks, then_expression(toks, POk(<<>>, advance(toks, cur))),
                       "LeftBrace")),
            "RightBrace"))

parse_expression(toks, cur) == parse_pipeline(toks, cur)

\* The call `self.parse_<level>()` of one precedence level from the level above.
descend(level, toks, cur) ==
    CASE level = "logical_or" -> parse_logical_or(toks, cur)
      [] level = "logical_and" -> parse_logical_and(toks, cur)
      [] level = "equality" -> parse_equality(toks, cur)
      [] level = "comparison" -> parse_comparison(toks, cur)
      [] level = "addition" -> parse_addition(toks, cur)
      [] level = "multiplication" -> parse_multiplication(toks, cur)
      [] level = "unary" -> parse_unary(toks, cur)
      [] level = "call" -> parse_call(toks, cur)
      [] level = "primary" -> parse_primary(toks, cur)

\* A plausible slip: a single stage is wrapped in a Pipeline too.
pipeline_node_wrapping(stages) ==
    IF ~stages.ok THEN stages ELSE POk(Pipeline(stages.node), stages.cur)

\* `if pipeline_exprs.len() > 1 { Pipeline(pipeline_exprs) } else { expr }`:
\* expr is the first element of pipeline_exprs.
pipeline_node(stages) ==
    IF ~stages.ok THEN stages
    ELSE IF Len(stages.node) > 1 THEN POk(Pipeline(stages.node), stages.cur)
    ELSE POk(stages.node[1], stages.cur)

parse_pipeline(toks, cur) ==
    pipeline_node(pipeline_loop(toks, append(POk(<<>>, cur), descend("logical_or", toks, cur))))

pipeline_loop(toks, pipeline_exprs) ==
    IF ~pipeline_exprs.ok THEN pipeline_exprs
    ELSE IF peek(toks, pipeline_exprs.cur).type = "Pipe"
    THEN pipeline_loop(toks, append(pipeline_exprs,
                                    descend("logical_or", toks, advance(toks, pipeline_exprs.cur))))
    ELSE pipeline_exprs

\* `left = Binary { left, operator, right: right? }` of the binary levels.
binary(left, op, right) ==
    IF ~right.ok THEN right ELSE POk(Binary(left.node, op, right.node), right.cur)

parse_logical_or(toks, cur) == logical_or_loop(toks, descend("logical_and", toks, cur))

logical_or_loop(toks, left) ==
    IF ~left.ok THEN left
    ELSE IF peek(toks, left.cur).type = "Or"
    THEN logical_or_loop(toks, binary(left, "||",
                                      descend("logical_and", toks, advance(toks, left.cur))))
    ELSE left

parse_logical_and(toks, cur) == logical_and_loop(toks, descend("equality", toks, cur))

logical_and_loop(toks, left) ==
    IF ~left.ok THEN left
    ELSE IF peek(toks, left.cur).type = "And"
    THEN logical_and_loop(toks, binary(left, "&&",
                                       descend("equality", toks, advance(toks, left.cur))))
    ELSE left

parse_equality(toks, cur) == equality_loop(toks, descend("comparison", toks, cur))

equality_loop(toks, left) ==
    IF ~left.ok THEN left
    ELSE IF peek(toks, left.cur).type \in {"Equal", "NotEqual"}
    THEN equality_loop(toks, binary(left,
                                    IF peek(toks, left.cur).type = "Equal" THEN "==" ELSE "!=",
                                    descend("comparison", toks, advance(toks, left.cur))))
    ELSE left

parse_comparison(toks, cur) == comparison_loop(toks, descend("addition", toks, cur))

comparison_loop(toks, left) ==
    IF ~left.ok THEN left
    ELSE IF peek(toks, left.cur).type \in {"Less", "Greater", "LessEqual", "GreaterEqual"}
    THEN comparison_loop(toks, binary(left,
                                      CASE peek(toks, left.cur).type = "Less" -> "<"
                                        [] peek(toks, left.cur).type = "Greater" -> ">"
                                        [] peek(toks, left.cur).type = "LessEqual" -> "<="
                                        [] peek(toks, left.cur).type = "GreaterEqual" -> ">=",
                                      descend("addition", toks, advance(toks, left.cur))))
    ELSE left

parse_addition(toks, cur) == addition_loop(toks, descend("multiplication", toks, cur))

\* A plausible slip: the right operand of + and - is parsed one level too deep.
addition_loop_flat(toks, left) ==
    IF ~left.ok THEN left
    ELSE IF peek(toks, left.cur).type \in {"Plus", "Minus"}
    THEN addition_loop(toks, binary(left,
                                    IF peek(toks, left.cur).type = "Plus" THEN "+" ELSE "-",
                                    descend("unary", toks, advance(toks, left.cur))))
    ELSE left

addition_loop(toks, left) ==
    IF ~left.ok THEN left
    ELSE IF peek(toks, left.cur).type \in {"Plus", "Minus"}
    THEN addition_loop(toks, binary(left,
                                    IF peek(toks, left.cur).type = "Plus" THEN "+" ELSE "-",
                                    descend("multiplication", toks, advance(toks, left.cur))))
    ELSE left

parse_multiplication(toks, cur) == multiplication_loop(toks, descend("unary", toks, cur))

multiplication_loop(toks, left) ==
    IF ~left.ok THEN left
    ELSE IF peek(toks, left.cur).type \in {"Multiply", "Divide", "Modulo"}
    THEN multiplication_loop(toks, binary(left,
                                          CASE peek(toks, left.cur).type = "Multiply" -> "*"
                                            [] peek(toks, left.cur).type = "Divide" -> "/"
                                            [] peek(toks, left.cur).type = "Modulo" -> "%",
                                          descend("unary", toks, advance(toks, left.cur))))
    ELSE left

\* `Unary { operator, operand: Box::new(operand?) }`.
unary(op, operand) ==
    IF ~operand.ok THEN operand ELSE POk(Unary(op, operand.node), operand.cur)

parse_unary(toks, cur) ==
    IF peek(toks, cur).type \in {"Not", "Minus"}
    THEN unary(IF peek(toks, cur).type = "Not" THEN "!" ELSE "-",
               descend("unary", toks, advance(toks, cur)))
    ELSE descend("call", toks, cur)

parse_call(toks, cur) == call_loop(toks, descend("primary", toks, cur))

\* The argument loop: an expression, then an optional comma.
call_args(toks, args) ==
    IF ~args.ok THEN args
    ELSE IF peek(toks, args.cur).type = "RightParen" THEN args
    ELSE call_args(toks, skip_comma(toks, append(args, parse_expression(toks, args.cur))))

\* `if matches!(self.peek(), Comma) { self.advance(); }` after a pushed argument.
skip_comma(toks, args) ==
    IF args.ok /\ peek(toks, args.cur).type = "Comma"
    THEN POk(args.node, advance(toks, args.cur)) ELSE args

\* `expr = Call(Box::new(expr), args)` once the arguments and `)` are read.
call_node(expr, args) == IF ~args.ok THEN args ELSE POk(Call(expr.node, args.node), args.cur)

\* A plausible slip: the index is parsed and dropped for every operand.
index_node_dropped(expr, timestamp) ==
    IF ~timestamp.ok THEN timestamp ELSE POk(expr.node, timestamp.cur)

\* `if let ASTNode::Identifier(var_name) = expr { expr = TemporalAccess {..} }`
\* once the index and `]` are read: an index on anything but a bare Identifier
\* leaves expr as it was.
index_node(expr, timestamp) ==
    IF ~timestamp.ok THEN timestamp
    ELSE IF expr.node.kind = "Identifier"
    THEN POk(TemporalAccess(expr.node.name, timestamp.node), timestamp.cur)
    ELSE POk(expr.node, timestamp.cur)

\* The postfix loop of parse_call.
call_loop(toks, expr) ==
    IF ~expr.ok THEN expr
    ELSE CASE peek(toks, expr.cur).type = "LeftParen" ->
                call_loop(toks,
                    call_node(expr,
                        expect(toks, call_args(toks, POk(<<>>, advance(toks, expr.cur))),
                               "RightParen")))
           [] peek(toks, expr.cur).type = "Dot" ->
                IF peek(toks, advance(toks, expr.cur)).type = "Identifier"
                THEN call_loop(toks,
                         POk(MemberAccess(expr.node, peek(toks, advance(toks, expr.cur)).text),
                             advance(toks, advance(toks, expr.cur))))
                ELSE PErr([msg |-> "Expected property name after '.'"],
                          advance(toks, expr.cur))
           [] peek(toks, expr.cur).type = "LeftBracket" ->
                call_loop(toks,
                    index_node(expr,
                        expect(toks, parse_expression(toks, advance(toks, expr.cur)),
                               "RightBracket")))
           [] OTHER -> expr

parse_primary(toks, cur) ==
    LET tok == peek(toks, cur)
    IN  CASE tok.type = "Number" -> POk(Number(tok.num), advance(toks, cur))
          [] tok.type = "String" -> POk(String(tok.text), advance(toks, cur))
          [] tok.type = "Boolean" -> POk(Boolean(tok.bool), advance(toks, cur))
          [] tok.type = "Identifier" -> POk(Identifier(tok.text), advance(toks, cur))
          [] tok.type = "LeftParen" ->
                expect(toks, parse_expression(toks, advance(toks, cur)), "RightParen")
          [] OTHER -> PErr([msg |-> "Unexpected token in expression", found |-> tok], cur)

(***************************************************************************)
(* SEMANTIC ANALYZER                                                       *)
(* An analyzer value is [symbol_table, current_scope, timestamp, errors];  *)
(* symbol_table is a function from names to Variable records.              *)
(***************************************************************************)
TNumber == [tag |-> "Number"]
TString == [tag |-> "String"]
TBoolean == [tag |-> "Boolean"]
TAny == [tag |-> "Any"]
TTemporal(inner) == [tag |-> "Temporal", inner |-> inner]

NewAnalyzer ==
    [symbol_table |-> [n \in {} |-> TAny], current_scope |-> 0, timestamp |-> 0,
     errors |-> <<>>]

SemErr(msg, name) == [msg |-> msg, name |-> name]

add_error(S, e) == [S EXCEPT !.errors = Append(@, e)]

insert(table, name, var) ==
    [n \in DOMAIN table \cup {name} |-> IF n = name THEN var ELSE table[n]]

infer_type(S, node) ==
    CASE node.kind = "Number" -> TNumber
      [] node.kind = "String" -> TString
      [] node.kind = "Boolean" -> TBoolean
      [] node.kind = "Identifier" ->
            IF node.name \in DOMAIN S.symbol_table
            THEN S.symbol_table[node.name].flux_type ELSE TAny
      [] node.kind = "Binary" ->
            IF node.operator \in {"+", "-", "*", "/", "%"} THEN TNumber
            ELSE IF node.operator \in {"==", "!=", "<", ">", "<=", ">=", "&&", "||"}
            THEN TBoolean ELSE TAny
      [] OTHER -> TAny

\* A plausible slip: only undefined names are diagnosed.
check_temporal_access_lax(S, var) ==
    IF var \in DOMAIN S.symbol_table THEN S
    ELSE add_error(S, SemErr("Undefined variable", var))

\* The symbol-table test of the TemporalAccess arm of visit.
check_temporal_access(S, var) ==
    IF var \in DOMAIN S.symbol_table
    THEN IF ~S.symbol_table[var].is_temporal
         THEN add_error(S, SemErr("Variable is not temporal", var))
         ELSE S
    ELSE add_error(S, SemErr("Undefined variable", var))

RECURSIVE visit(_, _), visit_all(_, _), visit_assignment(_, _)

\* `for n in nodes { self.visit(n) }`
visit_all(S, nodes) ==
    IF nodes = <<>> THEN S ELSE visit_all(visit(S, Head(nodes)), Tail(nodes))

\* The `self.timestamp += 1` every arm reaches unless it returned early.
tick(S) == [S EXCEPT !.timestamp = @ + 1]

\* A plausible slip: the const test is left out of the Assignment arm.
visit_assignment_no_const(S, node) ==
    IF node.name \in DOMAIN S.symbol_table
    THEN IF S.symbol_table[node.name].is_frozen
         THEN add_error(S, SemErr("Cannot modify frozen variable", node.name))
         ELSE tick(visit(S, node.value))
    ELSE tick(visit(add_error(S, SemErr("Undefined variable", node.name)), node.value))

\* The Assignment arm of visit: a const or frozen target is diagnosed and the
\* arm returns at once; an undefined target is diagnosed and the value is
\* still visited.
visit_assignment(S, node) ==
    IF node.name \in DOMAIN S.symbol_table
    THEN IF S.symbol_table[node.name].is_const
         THEN add_error(S, SemErr("Cannot reassign to const variable", node.name))
         ELSE IF S.symbol_table[node.name].is_frozen
         THEN add_error(S, SemErr("Cannot modify frozen variable", node.name))
         ELSE tick(visit(S, node.value))
    ELSE tick(visit(add_error(S, SemErr("Undefined variable", node.name)), node.value))

visit(S, node) ==
    CASE node.kind = "Program" -> tick(visit_all(S, node.statements))
      [] node.kind = "VarDecl" ->
            LET value_type == infer_type(S, node.value)
            IN  IF node.name \in DOMAIN S.symbol_table
                THEN add_error(S, SemErr("Variable already declared", node.name))
                ELSE LET var == [name |-> node.name,
                                 flux_type |-> IF node.is_temporal THEN TTemporal(value_type)
                                               ELSE value_type,
                                 is_const |-> node.is_const,
                                 is_temporal |-> node.is_temporal,
                                 is_frozen |-> FALSE,
                                 timeline |-> <<<<S.timestamp, infer_type(S, node.value)>>>>]
                         S1 == [S EXCEPT !.symbol_table = insert(@, node.name, var)]
                     IN  tick(visit(S1, node.value))
      [] node.kind = "Assignment" -> visit_assignment(S, node)
      [] node.kind = "TemporalAccess" ->
            tick(visit(check_temporal_access(S, node.var), node.timestamp))
      [] node.kind = "FunctionDecl" ->
            LET S1 == [S EXCEPT !.current_scope = @ + 1]
                S2 == visit_all(S1, node.body)
            IN  tick([S2 EXCEPT !.current_scope = @ - 1])
      [] node.kind = "Binary" -> tick(visit(visit(S, node.left), node.right))
      [] node.kind = "Call" -> tick(visit_all(visit(S, node.callee), node.args))
      [] node.kind = "Pipeline" -> tick(visit_all(S, node.exprs))
      [] OTHER -> tick(S)

\* SemanticAnalyzer::analyze on a fresh analyzer: the analyzer afterwards;
\* the call returns Ok(()) iff its errors are empty, Err(errors) otherwise.
analyze(tree_) == visit(NewAnalyzer, tree_)

(***************************************************************************)
(* CODE GENERATOR                                                          *)
(* A generator value is [output, label_counter, temp_counter].  output is  *)
(* the sequence of emitted lines; a line is a record whose op names the    *)
(* instruction and whose other fields are the strings format! substituted, *)
(* character for character (so "%" \o r is what `%{}` prints for r).       *)
(***************************************************************************)
NewGenerator == [output |-> <<>>, label_counter |-> 0, temp_counter |-> 0]

emit(G, line) == [G EXCEPT !.output = Append(@, line)]

Text(t) == [op |-> "text", text |-> t]

\* new_temp / new_label: the generator after the increment, and the name.
new_temp(G) ==
    [gen |-> [G EXCEPT !.temp_counter = @ + 1], name |-> "t" \o ToString(G.temp_counter + 1)]

new_label(G) ==
    [gen |-> [G EXCEPT !.label_counter = @ + 1], name |-> "L" \o ToString(G.label_counter + 1)]

emit_header(G) ==
    [G EXCEPT !.output = @ \o
        << Text("; Flux Language - Generated LLVM IR"),
           Text("target triple = \"x86_64-pc-linux-gnu\""),
           Text("declare i32 @printf(i8*, ...)"),
           Text("declare i8* @malloc(i64)"),
           Text("declare void @free(i8*)"),
           Text("@.str_num = private unnamed_addr constant [6 x i8] c\"%f\\0A\\00\""),
           Text("@.str_str = private unnamed_addr constant [4 x i8] c\"%s\\0A\\00\""),
           Text("@.str_bool_true = private unnamed_addr constant [6 x i8] c\"true\\0A\\00\""),
           Text("@.str_bool_false = private unnamed_addr constant [7 x i8] c\"false\\0A\\00\""),
           Text("%temporal_entry = type { double, i8* }"),
           Text("%temporal_var = type { i32, %temporal_entry* }") >>]

emit_footer(G) ==
    [G EXCEPT !.output = @ \o
        << [op |-> "define", ret |-> "i32", name |-> "@main", params |-> 0],
           [op |-> "label", name |-> "entry"],
           [op |-> "call_void", callee |-> "@flux_main"],
           [op |-> "ret", ty |-> "i32", value |-> "0"],
           [op |-> "end_define"] >>]

RECURSIVE gen_visit(_, _), gen_visit_all(_, _), visit_expression(_, _),
          visit_expressions(_, _, _)

\* `for stmt in stmts { self.visit(stmt) }`
gen_visit_all(G, nodes) ==
    IF nodes = <<>> THEN G ELSE gen_visit_all(gen_visit(G, Head(nodes)), Tail(nodes))

\* args.iter().map(|arg| self.visit_expression(arg)).collect()
visit_expressions(G, nodes, regs) ==
    IF nodes = <<>> THEN [gen |-> G, regs |-> regs]
    ELSE LET r == visit_expression(G, Head(nodes))
         IN  visit_expressions(r.gen, Tail(nodes), Append(regs, r.reg))

\* One `%tN = <op> ...` line whose result is the fresh temporary.
emit_temp(G, line) ==
    LET t == new_temp(G)
    IN  [gen |-> emit(t.gen, [line EXCEPT !.dst = "%" \o t.name]), reg |-> "%" \o t.name]

visit_expression(G, node) ==
    CASE node.kind = "Number" ->
            emit_temp(G, [op |-> "fadd", dst |-> "", a |-> "0.0", lit |-> node.num])
      [] node.kind = "Boolean" ->
            emit_temp(G, [op |-> "fadd", dst |-> "", a |-> "0.0",
                          lit |-> IF node.bool THEN Whole(1) ELSE Whole(0)])
      [] node.kind = "Identifier" ->
            emit_temp(G, [op |-> "load", dst |-> "", ptr |-> "%" \o node.name])
      [] node.kind = "Binary" ->
            LET l == visit_expression(G, node.left)
                r == visit_expression(l.gen, node.right)
                t == new_temp(r.gen)
                arith(o) == emit(t.gen, [op |-> o, dst |-> "%" \o t.name,
                                         a |-> l.reg, b |-> r.reg])
                cmp(pred) ==
                    emit(emit(t.gen, [op |-> "fcmp", pred |-> pred,
                                      dst |-> "%" \o t.name \o "_cmp",
                                      a |-> l.reg, b |-> r.reg]),
                         [op |-> "uitofp", dst |-> "%" \o t.name,
                          src |-> "%" \o t.name \o "_cmp"])
            IN  [gen |-> CASE node.operator = "+" -> arith("fadd")
                           [] node.operator = "-" -> arith("fsub")
                           [] node.operator = "*" -> arith("fmul")
                           [] node.operator = "/" -> arith("fdiv")
                           [] node.operator = "==" -> cmp("oeq")
                           [] node.operator = "<" -> cmp("olt")
                           [] OTHER -> arith("fadd"),
                 reg |-> "%" \o t.name]
      [] node.kind = "Call" ->
            IF node.callee.kind = "Identifier"
            THEN IF node.callee.name = "print"
                 THEN IF node.args # <<>>
                      THEN LET a == visit_expression(G, Head(node.args))
                           IN  emit_temp(a.gen, [op |-> "call_printf", dst |-> "",
                                                 fmt |-> "@.str_num", arg |-> a.reg])
                      ELSE [gen |-> G, reg |-> "0"]
                 ELSE LET as == visit_expressions(G, node.args, <<>>)
                      IN  emit_temp(as.gen, [op |-> "call", dst |-> "",
                                             callee |-> "@" \o node.callee.name,
                                             args |-> as.regs])
            ELSE [gen |-> G, reg |-> "0"]
      [] node.kind = "TemporalAccess" ->
            LET ts == visit_expression(G, node.timestamp)
            IN  emit_temp(ts.gen, [op |-> "load", dst |-> "", ptr |-> "%" \o node.var])
      [] OTHER -> [gen |-> G, reg |-> "0"]

\* The lines of the timeline cell a temporal VarDecl allocates.
temporal_cell(G) ==
    LET tv == new_temp(G)
        ep == new_temp(tv.gen)
        tp == new_temp(ep.gen)
        vp == new_temp(tp.gen)
    IN  [vp.gen EXCEPT !.output = @ \o
            << [op |-> "malloc", dst |-> "%" \o tv.name],
               [op |-> "bitcast", dst |-> "%" \o tv.name \o "_cast",
                src |-> "%" \o tv.name, to |-> "%temporal_var*"],
               [op |-> "malloc", dst |-> "%" \o ep.name],
               [op |-> "bitcast", dst |-> "%" \o ep.name \o "_entry",
                src |-> "%" \o ep.name, to |-> "%temporal_entry*"],
               [op |-> "getelementptr", dst |-> "%" \o tp.name,
                base |-> "%" \o ep.name \o "_entry", index |-> 0],
               [op |-> "store", ty |-> "double", value |-> "0.0", ptr |-> "%" \o tp.name],
               [op |-> "getelementptr", dst |-> "%" \o vp.name,
                base |-> "%" \o ep.name \o "_entry", index |-> 1],
               [op |-> "store", ty |-> "i8*", value |-> "null", ptr |-> "%" \o vp.name] >>]

\* `%p = alloca double` and `store double %i, double* %p` for parameter i (from 0).
RECURSIVE param_slots(_, _, _)
param_slots(G, params, i) ==
    IF i >= Len(params) THEN G
    ELSE param_slots(
            emit(emit(G, [op |-> "alloca", dst |-> "%" \o params[i + 1]]),
                 [op |-> "store", ty |-> "double", value |-> "%" \o ToString(i),
                  ptr |-> "%" \o params[i + 1]]),
            params, i + 1)

gen_visit(G, node) ==
    CASE node.kind = "Program" ->
            LET G1 == emit(emit(G, [op |-> "define", ret |-> "void", name |-> "@flux_main",
                                    params |-> 0]),
                           [op |-> "label", name |-> "entry"])
                G2 == gen_visit_all(G1, node.statements)
            IN  emit(emit(G2, [op |-> "ret_void"]), [op |-> "end_define"])
      [] node.kind = "VarDecl" ->
            LET v == visit_expression(G, node.value)
                G1 == IF node.is_temporal THEN temporal_cell(v.gen) ELSE v.gen
            IN  emit(emit(G1, [op |-> "alloca", dst |-> "%" \o node.name]),
                     [op |-> "store", ty |-> "double", value |-> "%" \o v.reg,
                      ptr |-> "%" \o node.name])
      [] node.kind = "Assignment" ->
            LET v == visit_expression(G, node.value)
            IN  emit(v.gen, [op |-> "store", ty |-> "double", value |-> "%" \o v.reg,
                             ptr |-> "%" \o node.name])
      [] node.kind = "FunctionDecl" ->
            LET G1 == emit(emit(G, [op |-> "define", ret |-> "double",
                                    name |-> "@" \o node.name, params |-> Len(node.params)]),
                           [op |-> "label", name |-> "entry"])
                G2 == gen_visit_all(param_slots(G1, node.params, 0), node.body)
            IN  emit(emit(G2, [op |-> "ret", ty |-> "double", value |-> "0.0"]),
                     [op |-> "end_define"])
      [] node.kind = "Return" ->
            LET v == visit_expression(G, node.value)
            IN  emit(v.gen, [op |-> "ret", ty |-> "double", value |-> "%" \o v.reg])
      [] node.kind = "If" ->
            LET c == visit_expression(G, node.condition)
                then_label == new_label(c.gen)
                else_label == new_label(then_label.gen)
                end_label == new_label(else_label.gen)
                bool_reg == new_temp(end_label.gen)
                G1 == emit(bool_reg.gen, [op |-> "fcmp", pred |-> "une",
                                          dst |-> "%" \o bool_reg.name,
                                          a |-> "%" \o c.reg, b |-> "0.0"])
                G2 == emit(G1, [op |-> "br_cond", cond |-> "%" \o bool_reg.name,
                                then |-> "%" \o then_label.name,
                                else |-> "%" \o (IF node.else_branch # NoneOpt
                                                 THEN else_label.name ELSE end_label.name)])
                G3 == gen_visit_all(emit(G2, [op |-> "label", name |-> then_label.name]),
                                    node.then_branch)
                G4 == emit(G3, [op |-> "br", target |-> "%" \o end_label.name])
                G5 == IF node.else_branch # NoneOpt
                      THEN emit(gen_visit_all(emit(G4, [op |-> "label",
                                                        name |-> else_label.name]),
                                              node.else_branch[1]),
                                [op |-> "br", target |-> "%" \o end_label.name])
                      ELSE G4
            IN  emit(G5, [op |-> "label", name |-> end_label.name])
      [] node.kind = "While" ->
            LET loop_label == new_label(G)
                body_label == new_label(loop_label.gen)
                end_label == new_label(body_label.gen)
                G1 == emit(emit(end_label.gen, [op |-> "br", target |-> "%" \o loop_label.name]),
                           [op |-> "label", name |-> loop_label.name])
                c == visit_expression(G1, node.condition)
                bool_reg == new_temp(c.gen)
                G2 == emit(bool_reg.gen, [op |-> "fcmp", pred |-> "une",
                                          dst |-> "%" \o bool_reg.name,
                                          a |-> "%" \o c.reg, b |-> "0.0"])
                G3 == emit(G2, [op |-> "br_cond", cond |-> "%" \o bool_reg.name,
                                then |-> "%" \o body_label.name,
                                else |-> "%" \o end_label.name])
                G4 == gen_visit_all(emit(G3, [op |-> "label", name |-> body_label.name]),
                                    node.body)
            IN  emit(emit(G4, [op |-> "br", target |-> "%" \o loop_label.name]),
                     [op |-> "label", name |-> end_label.name])
      [] node.kind = "Pipeline" -> visit_expressions(G, node.exprs, <<>>).gen
      [] OTHER -> G

\* CodeGenerator::generate on a fresh generator: the text it returns.
generate(tree_) == emit_footer(gen_visit(emit_header(NewGenerator), tree_)).output

(***************************************************************************)
(* PIPELINE PROCESSOR, PATTERN MATCHER, OPTIMIZER                          *)
(***************************************************************************)
RECURSIVE process_loop(_, _)
process_loop(result_, rest) ==
    IF rest = <<>> THEN result_
    ELSE process_loop(Call(Head(rest), <<result_>>), Tail(rest))

\* PipelineProcessor::process
process(expressions) ==
    IF expressions = <<>> THEN [ok |-> FALSE, err |-> [msg |-> "Empty pipeline"]]
    ELSE [ok |-> TRUE, node |-> process_loop(Head(expressions), Tail(expressions))]

\* A plausible slip: `default` gets the equality test like any other pattern.
match_condition_no_default(expr, pattern) == Binary(expr, "==", pattern)

match_condition(expr, pattern) ==
    IF pattern.kind = "Identifier" /\ pattern.name = "default" THEN Boolean(TRUE)
    ELSE Binary(expr, "==", pattern)

\* The loop of compile_match, over the cases from last to first; result_ is
\* the Option holding the chain built so far.
RECURSIVE compile_match_loop(_, _, _)
compile_match_loop(expr, cases, result_) ==
    IF cases = <<>> THEN result_
    ELSE LET last == cases[Len(cases)]
             node == If(match_condition(expr, last[1]), last[2],
                        IF result_ # NoneOpt THEN Some(<<result_[1]>>) ELSE NoneOpt)
         IN  compile_match_loop(expr, SubSeq(cases, 1, Len(cases) - 1), Some(node))

\* PatternMatcher::compile_match
compile_match(expr, cases) ==
    IF cases = <<>>
    THEN [ok |-> FALSE, err |-> [msg |-> "Match expression must have at least one case"]]
    ELSE [ok |-> TRUE, node |-> compile_match_loop(expr, cases, NoneOpt)[1]]

RECURSIVE optimize(_), optimize_all(_)

\* `for stmt in stmts { Self::optimize(stmt) }`
optimize_all(nodes) ==
    IF nodes = <<>> THEN <<>> ELSE <<optimize(Head(nodes))>> \o optimize_all(Tail(nodes))

\* A plausible slip: the guard on the divisor is missing and x / 0 folds to 0.
fold_binary_unguarded(node) ==
    IF node.left.kind = "Number" /\ node.right.kind = "Number"
    THEN LET l == node.left.num
             r == node.right.num
         IN  CASE node.operator = "+" -> Number(RatAdd(l, r))
               [] node.operator = "-" -> Number(RatSub(l, r))
               [] node.operator = "*" -> Number(RatMul(l, r))
               [] node.operator = "/" ->
                     IF r # Whole(0) THEN Number(RatDiv(l, r)) ELSE Number(Whole(0))
               [] OTHER -> node
    ELSE node

\* Constant folding of a Binary whose operands have been optimized.
fold_binary(node) ==
    IF node.left.kind = "Number" /\ node.right.kind = "Number"
    THEN LET l == node.left.num
             r == node.right.num
         IN  CASE node.operator = "+" -> Number(RatAdd(l, r))
               [] node.operator = "-" -> Number(RatSub(l, r))
               [] node.operator = "*" -> Number(RatMul(l, r))
               [] node.operator = "/" /\ r # Whole(0) -> Number(RatDiv(l, r))
               [] OTHER -> node
    ELSE node

\* Folding of a Unary whose operand has been optimized.
fold_unary(node) ==
    IF node.operand.kind = "Number" /\ node.operator = "-"
    THEN Number(RatNeg(node.operand.num))
    ELSE node

\* The If arm of optimize: the condition, then the taken branch only when
\* the condition is a Boolean literal, both branches otherwise.  The node
\* itself stays an If.
optimize_if(node) ==
    LET n1 == [node EXCEPT !.condition = optimize(@)]
        then_opt == [n1 EXCEPT !.then_branch = optimize_all(@)]
        else_opt(n) == IF n.else_branch # NoneOpt
                       THEN [n EXCEPT !.else_branch = Some(optimize_all(@[1]))]
                       ELSE n
    IN  IF n1.condition.kind = "Boolean"
        THEN IF n1.condition.bool THEN then_opt ELSE else_opt(n1)
        ELSE else_opt(then_opt)

\* A plausible slip: a Binary is folded before its operands are optimized.
optimize_top_down(node) ==
    CASE node.kind = "Program" -> [node EXCEPT !.statements = optimize_all(@)]
      [] node.kind = "Binary" ->
            LET f == fold_binary(node)
            IN  IF f.kind = "Binary"
                THEN [f EXCEPT !.left = optimize(@), !.right = optimize(@)]
                ELSE f
      [] node.kind = "Unary" -> fold_unary([node EXCEPT !.operand = optimize(@)])
      [] node.kind = "If" -> optimize_if(node)
      [] OTHER -> node

\* ASTOptimizer::optimize, returning the tree the in-place rewrite leaves.
optimize(node) ==
    CASE node.kind = "Program" -> [node EXCEPT !.statements = optimize_all(@)]
      [] node.kind = "Binary" ->
            fold_binary([node EXCEPT !.left = optimize(@), !.right = optimize(@)])
      [] node.kind = "Unary" -> fold_unary([node EXCEPT !.operand = optimize(@)])
      [] node.kind = "If" -> optimize_if(node)
      [] OTHER -> node

(***************************************************************************)
(* Source texts                                                            *)
(***************************************************************************)
MaxLit == 2        \* numeric literals 0..MaxLit stand for "all literals a, b, c"
MaxStages == 3     \* longest pipeline written in a source
MaxPasses == 2     \* optimize calls applied to one tree

DigitStr == <<"0", "1", "2", "3", "4", "5", "6", "7", "8", "9">>

\* The decimal text of a natural number.
RECURSIVE NumChars(_)
NumChars(n) ==
    IF n < 10 THEN <<DigitStr[n + 1]>> ELSE NumChars(n \div 10) \o <<DigitStr[(n % 10) + 1]>>

SP == <<" ">>
NL == <<"\n">>
KwLet == <<"l", "e", "t">>
KwConst == <<"c", "o", "n", "s", "t">>
KwTemporal == <<"t", "e", "m", "p", "o", "r", "a", "l">>

\* `<kw> <name> = <init>`
DeclSrc(kw, name, init) == kw \o SP \o name \o <<" ", "=", " ">> \o init

\* `<name> = <value>`
AssignSrc(name, value) == name \o <<" ", "=", " ">> \o value

\* `let <target> = <name>[<index>]`
IndexSrc(target, name, index) ==
    DeclSrc(KwLet, target, name \o <<"[">> \o index \o <<"]">>)

VarNames == {<<"x">>, <<"t">>}
InitExprs == {<<"1">>, <<"1", "0">>, <<"1", " ", "+", " ", "2">>, <<"\"", "s", "\"">>}
IndexExprs == {<<"0">>, <<"1">>, <<"k">>}
DeclKws == {KwLet, KwConst, KwTemporal \o SP \o KwLet, KwTemporal \o SP \o KwConst}

\* `const x = 10\nx = 20` and its variants
ReassignSources ==
    {DeclSrc(kw, n, NumChars(a)) \o NL \o AssignSrc(n, NumChars(b)) :
        kw \in {KwConst, KwLet}, n \in VarNames, a \in {10, 20}, b \in {10, 20}}

\* `<decl> n = E\nlet u = m[k]`
IndexSources ==
    {DeclSrc(kw, n, e) \o NL \o IndexSrc(<<"u">>, m, k) :
        kw \in DeclKws, n \in VarNames, m \in VarNames, e \in InitExprs, k \in IndexExprs}

\* The binary operators, as written in a source.
BinOps == {<<"|", "|">>, <<"&", "&">>, <<"=", "=">>, <<"!", "=">>, <<"<">>, <<">">>,
           <<"<", "=">>, <<">", "=">>, <<"+">>, <<"-">>, <<"*">>, <<"/">>, <<"%">>}
UnOps == {<<"-">>, <<"!">>}

\* `a op1 b op2 c`
OpSrc(a, op1, b, op2, c) ==
    NumChars(a) \o SP \o op1 \o SP \o NumChars(b) \o SP \o op2 \o SP \o NumChars(c)

\* `u a op b`
UnarySrc(u, a, op, b) == u \o NumChars(a) \o SP \o op \o SP \o NumChars(b)

\* `a | b op c`
PipeOpSrc(a, b, op, c) ==
    NumChars(a) \o <<" ", "|", " ">> \o NumChars(b) \o SP \o op \o SP \o NumChars(c)

ClaimedPairs == {<<(<<"+">>), (<<"*">>)>>, <<(<<"=", "=">>), (<<"&", "&">>)>>,
                 <<(<<"-">>), (<<"-">>)>>}

OpSources ==
    {OpSrc(1, op1, 2, op2, 3) : op1 \in BinOps, op2 \in BinOps}
    \cup {OpSrc(a, pr[1], b, pr[2], c) : pr \in ClaimedPairs, a \in 0..MaxLit,
                                         b \in 0..MaxLit, c \in 0..MaxLit}
    \cup {UnarySrc(u, 1, op, 2) : u \in UnOps, op \in BinOps}
    \cup {PipeOpSrc(1, 2, op, 3) : op \in BinOps}

\* n stages separated by n-1 `|`
StageExprs == {<<"x">>, <<"f">>, <<"5">>}

RECURSIVE PipeSrc(_)
PipeSrc(stages) ==
    IF Len(stages) = 1 THEN stages[1]
    ELSE PipeSrc(SubSeq(stages, 1, Len(stages) - 1)) \o <<" ", "|", " ">> \o stages[Len(stages)]

StageLists == UNION {[1..n -> StageExprs] : n \in 1..MaxStages}

PipeSources == {PipeSrc(st) : st \in StageLists}

SrcConstReassign == DeclSrc(KwConst, <<"x">>, NumChars(10)) \o NL \o AssignSrc(<<"x">>, NumChars(20))

SrcPipelineDecl ==
    <<"l","e","t"," ","v"," ","="," ","5"," ","|"," ","d","o","u","b","l","e"," ","|"," ",
      "a","d","d","_","t","e","n">>

SrcPipelineExpr == <<"a"," ","|"," ","f"," ","|"," ","g">>

SrcFoldDecl == <<"l","e","t"," ","c"," ","="," ","2"," ","+"," ","3"," ","*"," ","4">>

SrcFoldStmt == <<"2"," ","+"," ","3"," ","*"," ","4">>

SrcMatchDecl ==
    <<"l","e","t"," ","m"," ","="," ","m","a","t","c","h"," ","2","0","0"," ","{"," ","2",
      "0","0"," ","=",">"," ","\"","O","K","\"",";"," ","4","0","4"," ","=",">"," ",
      "\"","N","F","\"",";"," ","d","e","f","a","u","l","t"," ","=",">"," ","\"","?",
      "\""," ","}">>

SrcMatchStmt ==
    <<"m","a","t","c","h"," ","s"," ","{"," ","1"," ","=",">"," ","p","r","i","n","t","(",
      "1",")"," ","2"," ","=",">"," ","{"," ","p","r","i","n","t","(","2",")"," ","}",
      " ","}">>

SrcIf == <<"i","f"," ","t","r","u","e"," ","{"," ","1"," ","+"," ","2"," ","}"," ","e","l","s",
      "e"," ","{"," ","3"," ","*"," ","4"," ","}">>

SrcWhile == <<"w","h","i","l","e"," ","x"," ","<"," ","3"," ","{"," ","p","r","i","n","t","(","-",
      "x",")"," ","}">>

SrcClass == <<"c","l","a","s","s"," ","A"," ","e","x","t","e","n","d","s"," ","B"," ","{"," ","f",
      "u","n","c"," ","m","(","p",","," ","q",")"," ","{"," ","r","e","t","u","r","n",
      " ","p",".","f","(","q",")","[","0","]"," ","}"," ","}">>

\* The examples of main() (example 2 cut after its first assignment, example 4
\* with two of its four clauses).
SrcExample1 ==
    <<"\n","#","p","r","a","g","m","a"," ","b","r","a","c","e","s","\n","l","e","t"," ","x",
      " ","="," ","1","0","\n","c","o","n","s","t"," ","y"," ","="," ","2","0","\n","l",
      "e","t"," ","r","e","s","u","l","t"," ","="," ","x"," ","+"," ","y"," ","*"," ",
      "2","\n","p","r","i","n","t","(","r","e","s","u","l","t",")","\n">>

SrcExample2 ==
    <<"\n","#","p","r","a","g","m","a"," ","b","r","a","c","e","s","\n","t","e","m","p","o",
      "r","a","l"," ","l","e","t"," ","t","e","m","p","e","r","a","t","u","r","e"," ",
      "="," ","2","0",".","5","\n","t","e","m","p","e","r","a","t","u","r","e"," ","=",
      " ","2","5",".","0"," "," ","#"," ","T","h","i","s"," ","w","o","u","l","d"," ",
      "c","r","e","a","t","e"," ","a"," ","t","i","m","e","l","i","n","e"," ","e","n",
      "t","r","y","\n">>

SrcExample3 ==
    <<"\n","#","p","r","a","g","m","a"," ","b","r","a","c","e","s","\n","f","u","n","c"," ",
      "d","o","u","b","l","e","(","x",")"," ","{","\n"," "," "," "," ","r","e","t","u",
      "r","n"," ","x"," ","*"," ","2","\n","}","\n","\n","f","u","n","c"," ","a","d",
      "d","_","t","e","n","(","x",")"," ","{","\n"," "," "," "," ","r","e","t","u","r",
      "n"," ","x"," ","+"," ","1","0","\n","}","\n","\n","l","e","t"," ","v","a","l",
      "u","e"," ","="," ","5","\n","l","e","t"," ","r","e","s","u","l","t"," ","="," ",
      "v","a","l","u","e"," ","|"," ","d","o","u","b","l","e"," ","|"," ","a","d","d",
      "_","t","e","n"," "," ","#"," ","P","i","p","e","l","i","n","e",":"," ","5"," ",
      "-",">"," ","1","0"," ","-",">"," ","2","0","\n","p","r","i","n","t","(","r","e",
      "s","u","l","t",")","\n">>

SrcExample4 ==
    <<"\n","#","p","r","a","g","m","a"," ","b","r","a","c","e","s","\n","l","e","t"," ","s",
      "t","a","t","u","s"," ","="," ","2","0","0","\n","l","e","t"," ","m","e","s","s",
      "a","g","e"," ","="," ","m","a","t","c","h"," ","s","t","a","t","u","s"," ","{",
      "\n"," "," "," "," ","2","0","0"," ","=",">"," ","\"","O","K","\"","\n"," "," ",
      " "," ","d","e","f","a","u","l","t"," ","=",">"," ","\"","U","n","k","n","o","w",
      "n","\"","\n","}","\n","p","r","i","n","t","(","m","e","s","s","a","g","e",")",
      "\n">>

SrcExample5 ==
    <<"\n","#","p","r","a","g","m","a"," ","i","n","d","e","n","t","\n","l","e","t"," ","x",
      " ","="," ","1","0","\n","i","f"," ","x"," ",">"," ","5","\n"," "," "," "," ","l",
      "e","t"," ","m","e","s","s","a","g","e"," ","="," ","\"","G","r","e","a","t","e",
      "r"," ","t","h","a","n"," ","5","\"","\n"," "," "," "," ","p","r","i","n","t","(",
      "m","e","s","s","a","g","e",")","\n","e","l","s","e","\n"," "," "," "," ","p","r",
      "i","n","t","(","\"","L","e","s","s"," ","t","h","a","n"," ","o","r"," ","e","q",
      "u","a","l"," ","t","o"," ","5","\"",")","\n">>

\* `#pragma <name>` in the middle of a text: P, a pragma, S1, a pragma, S2.
HashPragma == <<"#", "p", "r", "a", "g", "m", "a">>
PragmaSrc(name) == HashPragma \o SP \o name
PragmaNames == {<<"b","r","a","c","e","s">>, <<"i","n","d","e","n","t">>,
                <<"n","o","_","b","r","a","c","e","s">>, <<"s","t","r","i","c","t">>}
PragmaFragments == {<<"{", "\n", "}">>, <<"x", "\n">>, <<"\n", "{", "1", "}", "\n">>}

PragmaSources ==
    {p \o PragmaSrc(n1) \o s1 \o PragmaSrc(n2) \o s2 :
        p \in PragmaFragments, n1 \in PragmaNames, s1 \in PragmaFragments,
        n2 \in PragmaNames, s2 \in PragmaFragments}

\* Programs with a pragma before each statement, on one line so that no mode
\* produces a Newline, and the last statement possibly a function whose body
\* holds a pragma of its own.
PragmaStatements ==
    {DeclSrc(KwLet, <<"x">>, NumChars(1)), <<"x">>, <<"f", "(", "x", ")">>}

PragmaBodies == {<<"x">>, PragmaSrc(<<"b","r","a","c","e","s">>) \o SP \o <<"x">>}

PragmaPrograms ==
    {PragmaSrc(n1) \o SP \o s1 \o SP \o PragmaSrc(n2) \o SP \o s2 :
        n1 \in PragmaNames \cup {<<>>}, s1 \in PragmaStatements,
        n2 \in PragmaNames, s2 \in PragmaStatements}
    \cup {PragmaSrc(n) \o SP \o <<"f","u","n","c"," ","f","(",")"," ","{"," ">> \o b \o <<" ","}">> :
            n \in PragmaNames, b \in PragmaBodies}

\* `#<text>` on a line of its own, before a statement or at the end of the
\* source.
CommentTexts ==
    {<<" ", "n", "o", "t", "e">>, <<"!">>, <<>>, <<"x", " ", "=", " ", "1">>,
     <<"p", "r", "i", "n", "t", " ", "x">>,
     <<"p", "r", "e", "v", "i", "o", "u", "s", " ", "v", "a", "l", "u", "e">>,
     <<"p", "r", "a", "g", "m", "a", "s">>}

CommentSources ==
    {<<"#">> \o text \o rest :
        text \in CommentTexts, rest \in {<<>>, NL \o DeclSrc(KwLet, <<"x">>, NumChars(1))}}

\* Texts the lexer has no token for, or cannot finish: a character outside
\* the language, a lone `&`, a lone `.`, a string whose closing quote is
\* missing, a string that ends in a backslash.
OddPieces ==
    {<<"@">>, <<"&">>, <<".">>, <<"\"", "a", "b">>, <<"\"", "a", "\\">>, <<"&", "&">>}

OddSources ==
    {<<"a">> \o SP \o p1 \o SP \o p2 : p1, p2 \in OddPieces} \cup OddPieces

\* Programs that end inside a construct: the parameter list, body, argument
\* list, match body, class body, index or operand never ends before EOF.
UnclosedSources ==
    {<<"f", "u", "n", "c", " ", "f", "(">>,
     <<"f", "u", "n", "c", " ", "f", "(", "a", ",">>,
     <<"f", "u", "n", "c", " ", "f", "(", ")", " ", "{">>,
     <<"f", "u", "n", "c", " ", "f", "(", ")", " ", "{", " ", "x">>,
     <<"f", "(">>,
     <<"f", "(", "1", ",">>,
     <<"f", "(", "1", " ", "2">>,
     <<"m", "a", "t", "c", "h", " ", "x", " ", "{">>,
     <<"m", "a", "t", "c", "h", " ", "x", " ", "{", " ", "1", " ", "=", ">">>,
     <<"m", "a", "t", "c", "h", " ", "x", " ", "{", " ", "1", " ", "=", ">", " ", "{">>,
     <<"c", "l", "a", "s", "s", " ", "A", " ", "{">>,
     <<"c", "l", "a", "s", "s", " ", "A", " ", "{", " ", "f", "u", "n", "c", " ", "m", "(", ")", " ", "{">>,
     <<"i", "f", " ", "x", " ", "{">>,
     <<"i", "f", " ", "x", " ", "{", " ", "1", " ", "}", " ", "e", "l", "s", "e", " ", "{">>,
     <<"w", "h", "i", "l", "e", " ", "x", " ", "{">>,
     <<"x", "[">>,
     <<"x", "[", "1">>,
     <<"(", "1">>,
     <<"l", "e", "t">>,
     <<"l", "e", "t", " ", "x", " ", "=">>,
     <<"x", " ", "+">>,
     <<"a", " ", "|">>}

\* Programs with a token that cannot be parsed before the last one.
MalformedSources ==
    {<<"t", "e", "m", "p", "o", "r", "a", "l", " ", "x">>,
     <<"l", "e", "t", " ", "1", " ", "=", " ", "2">>,
     <<")", " ", "x">>,
     <<"x", " ", ")", " ", "y">>,
     <<"f", "u", "n", "c", " ", "1">>,
     <<"c", "l", "a", "s", "s", " ", "{", " ", "}">>,
     <<"i", "f", " ", "x", " ", "1">>,
     <<"f", "(", "1", " ", ";", " ", "2", ")">>,
     <<"x", " ", "=", " ", "1">>,
     <<"f", "u", "n", "c", " ", "f", "(", "1", ")", " ", "{", " ", "}">>,
     <<"m", "a", "t", "c", "h", " ", "x", " ", "{", " ", "1", " ", "2", " ", "}">>,
     <<"c", "l", "a", "s", "s", " ", "A", " ", "{", " ", "x", " ", "}">>,
     <<"1", " ", "+", " ", "*", " ", "2">>,
     <<"x", ".", "1">>}

\* Programs in the indent syntax (one statement per line, blocks by
\* indentation), each with the same program in the brace syntax; the last is
\* example 5 of main.
IndentPairs ==
    {[indent |->
        <<"#", "p", "r", "a", "g", "m", "a", " ", "i", "n", "d", "e", "n", "t", "\n", "l",
          "e", "t", " ", "x", " ", "=", " ", "1", "0", "\n", "l", "e", "t", " ", "y", " ",
          "=", " ", "2", "\n">>,
      braces |->
        <<"#", "p", "r", "a", "g", "m", "a", " ", "b", "r", "a", "c", "e", "s", "\n", "l",
          "e", "t", " ", "x", " ", "=", " ", "1", "0", "\n", "l", "e", "t", " ", "y", " ",
          "=", " ", "2", "\n">>],
     [indent |->
        <<"#", "p", "r", "a", "g", "m", "a", " ", "n", "o", "_", "b", "r", "a", "c", "e",
          "s", "\n", "x", "\n">>,
      braces |->
        <<"#", "p", "r", "a", "g", "m", "a", " ", "b", "r", "a", "c", "e", "s", "\n", "x",
          "\n">>],
     [indent |->
        <<"#", "p", "r", "a", "g", "m", "a", " ", "i", "n", "d", "e", "n", "t", "\n", "i",
          "f", " ", "x", "\n", " ", " ", " ", " ", "y", "\n">>,
      braces |->
        <<"#", "p", "r", "a", "g", "m", "a", " ", "b", "r", "a", "c", "e", "s", "\n", "i",
          "f", " ", "x", " ", "{", "\n", " ", " ", " ", " ", "y", "\n", "}", "\n">>],
     [indent |->
        <<"#", "p", "r", "a", "g", "m", "a", " ", "i", "n", "d", "e", "n", "t", "\n", "w",
          "h", "i", "l", "e", " ", "x", "\n", " ", " ", " ", " ", "y", "\n", "z">>,
      braces |->
        <<"#", "p", "r", "a", "g", "m", "a", " ", "b", "r", "a", "c", "e", "s", "\n", "w",
          "h", "i", "l", "e", " ", "x", " ", "{", "\n", " ", " ", " ", " ", "y", "\n", "}",
          "\n", "z">>],
     [indent |->
        <<"\n", "#", "p", "r", "a", "g", "m", "a", " ", "i", "n", "d", "e", "n", "t", "\n",
          "l", "e", "t", " ", "x", " ", "=", " ", "1", "0", "\n", "i", "f", " ", "x", " ",
          ">", " ", "5", "\n", " ", " ", " ", " ", "l", "e", "t", " ", "m", "e", "s", "s",
          "a", "g", "e", " ", "=", " ", "\"", "G", "r", "e", "a", "t", "e", "r", " ", "t",
          "h", "a", "n", " ", "5", "\"", "\n", " ", " ", " ", " ", "p", "r", "i", "n", "t",
          "(", "m", "e", "s", "s", "a", "g", "e", ")", "\n", "e", "l", "s", "e", "\n", " ",
          " ", " ", " ", "p", "r", "i", "n", "t", "(", "\"", "L", "e", "s", "s", " ", "t",
          "h", "a", "n", " ", "o", "r", " ", "e", "q", "u", "a", "l", " ", "t", "o", " ",
          "5", "\"", ")", "\n">>,
      braces |->
        <<"\n", "#", "p", "r", "a", "g", "m", "a", " ", "b", "r", "a", "c", "e", "s", "\n",
          "l", "e", "t", " ", "x", " ", "=", " ", "1", "0", "\n", "i", "f", " ", "x", " ",
          ">", " ", "5", " ", "{", "\n", " ", " ", " ", " ", "l", "e", "t", " ", "m", "e",
          "s", "s", "a", "g", "e", " ", "=", " ", "\"", "G", "r", "e", "a", "t", "e", "r",
          " ", "t", "h", "a", "n", " ", "5", "\"", "\n", " ", " ", " ", " ", "p", "r", "i",
          "n", "t", "(", "m", "e", "s", "s", "a", "g", "e", ")", "\n", "}", " ", "e", "l",
          "s", "e", " ", "{", "\n", " ", " ", " ", " ", "p", "r", "i", "n", "t", "(", "\"",
          "L", "e", "s", "s", " ", "t", "h", "a", "n", " ", "o", "r", " ", "e", "q", "u",
          "a", "l", " ", "t", "o", " ", "5", "\"", ")", "\n", "}", "\n">>]}

IndentSources == {p.indent : p \in IndentPairs}

BraceSources == {p.braces : p \in IndentPairs}

\* The contexts an index expression is written in, `@` standing for it.
AccessContexts ==
    {<<"i", "f", " ", "@", " ", "{", " ", "1", " ", "}">>,
     <<"i", "f", " ", "1", " ", "{", " ", "@", " ", "}">>,
     <<"w", "h", "i", "l", "e", " ", "@", " ", "{", " ", "1", " ", "}">>,
     <<"r", "e", "t", "u", "r", "n", " ", "@">>,
     <<"l", "e", "t", " ", "y", " ", "=", " ", "-", "@">>,
     <<"l", "e", "t", " ", "y", " ", "=", " ", "@", ".", "p">>,
     <<"m", "a", "t", "c", "h", " ", "@", " ", "{", " ", "1", " ", "=", ">", " ", "2",
          " ", "}">>,
     <<"m", "a", "t", "c", "h", " ", "1", " ", "{", " ", "1", " ", "=", ">", " ", "@",
          " ", "}">>,
     <<"f", "(", "@", ")">>,
     <<"l", "e", "t", " ", "y", " ", "=", " ", "1", " ", "+", " ", "@">>}

\* text with each `@` replaced by expr.
RECURSIVE Fill(_, _)
Fill(text, expr) ==
    IF text = <<>> THEN <<>>
    ELSE (IF Head(text) = "@" THEN expr ELSE <<Head(text)>>) \o Fill(Tail(text), expr)

\* `<decl> x = 1` and then an access `m[0]` in each context, m declared or not.
AccessSources ==
    {DeclSrc(kw, <<"x">>, NumChars(1)) \o NL \o Fill(c, m \o <<"[", "0", "]">>) :
        kw \in {KwLet, KwTemporal \o SP \o KwLet}, m \in {<<"x">>, <<"u">>},
        c \in AccessContexts}

\* Programs that index something other than a bare identifier: a call
\* result, a member access, a literal, a parenthesised expression, the result
\* of an index.
IndexedExprSources ==
    {<<"f", "(", "x", ")", "[", "0", "]">>,
     <<"a", ".", "b", "[", "0", "]">>,
     <<"1", "[", "0", "]">>,
     <<"\"", "s", "\"", "[", "0", "]">>,
     <<"(", "1", " ", "+", " ", "2", ")", "[", "0", "]">>,
     <<"l", "e", "t", " ", "y", " ", "=", " ", "f", "(", "x", ")", "[", "0", "]">>,
     <<"t", "e", "m", "p", "o", "r", "a", "l", " ", "l", "e", "t", " ", "t", " ", "=",
       " ", "1", "\n", "l", "e", "t", " ", "y", " ", "=", " ", "t", "[", "0", "]", "[",
       "1", "]">>}

\* The arithmetic, equality and ordering operators, as written in a source.
ArithOps == {<<"+">>, <<"-">>, <<"*">>, <<"/">>}
CompareOps == {<<"=", "=">>, <<"!", "=">>, <<"<">>, <<">">>, <<"<", "=">>, <<">", "=">>}

\* `let a = <l> op <r>`, one Binary the generator lowers as an initializer.
BinaryDeclSrc(l, op, r) == DeclSrc(KwLet, <<"a">>, l \o SP \o op \o SP \o r)

BinaryDeclSources ==
    {BinaryDeclSrc(l, op, r) :
        l \in {NumChars(1), <<"x">>}, op \in ArithOps \cup CompareOps,
        r \in {NumChars(2), <<"x">>}}

\* Calls of print and of another function, as statements of their own and
\* inside expressions.
CallSources ==
    {<<"p", "r", "i", "n", "t", "(", "1", ")">>,
     <<"l", "e", "t", " ", "y", " ", "=", " ", "p", "r", "i", "n", "t", "(", "1", ")">>,
     <<"l", "e", "t", " ", "y", " ", "=", " ", "1", " ", "+", " ", "p", "r", "i", "n",
       "t", "(", "2", ")">>,
     <<"f", "(", "1", ",", " ", "2", ")">>,
     <<"l", "e", "t", " ", "y", " ", "=", " ", "f", "(", "1", ",", " ", "2", ")">>,
     <<"l", "e", "t", " ", "y", " ", "=", " ", "f", "(", ")">>,
     <<"l", "e", "t", " ", "x", " ", "=", " ", "1", "\n", "p", "r", "i", "n", "t", "(",
       "x", ")">>,
     <<"f", "u", "n", "c", " ", "g", "(", ")", " ", "{", " ", "p", "r", "i", "n", "t",
       "(", "1", ")", " ", "}">>}

NamedSources ==
    {SrcPipelineDecl, SrcPipelineExpr, SrcFoldDecl, SrcFoldStmt, SrcMatchDecl, SrcMatchStmt,
     SrcIf, SrcWhile, SrcClass, SrcExample1, SrcExample2, SrcExample3, SrcExample4,
     SrcExample5}

Sources ==
    ReassignSources \cup IndexSources \cup OpSources \cup PipeSources \cup NamedSources
    \cup PragmaSources \cup PragmaPrograms \cup CommentSources \cup OddSources
    \cup UnclosedSources \cup MalformedSources \cup IndentSources \cup BraceSources
    \cup AccessSources
    \cup IndexedExprSources
    \cup BinaryDeclSources
    \cup CallSources

(***************************************************************************)
(* FluxCompiler::compile, one action per stage (the lexer one action per   *)
(* iteration of its loop)                                                  *)
(***************************************************************************)
Unset == [unset |-> TRUE]

Ok(ir) == [ok |-> TRUE, ir |-> ir]
Err(prefix, detail) == [ok |-> FALSE, prefix |-> prefix, detail |-> detail]

lexer == [input |-> source, position |-> position, use_braces |-> use_braces,
          tokens |-> tokens]

optVars == <<opt_in, tree, passes>>

Init ==
    /\ source \in Sources
    /\ pc = "lex"
    /\ position = 0
    /\ use_braces = TRUE
    /\ tokens = <<>>
    /\ ast = Unset
    /\ analysis = Unset
    /\ result = Unset
    /\ ran = <<>>
    /\ opt_in = Unset
    /\ tree = Unset
    /\ passes = 0
    /\ visited = 0
    /\ manager = Unset
    /\ got = Unset

\* tokenize: one iteration of `while self.current_char.is_some()`
LexStep ==
    /\ pc = "lex"
    /\ current_char(lexer) # None
    /\ LET L == tokenize_step(lexer)
       IN  /\ position' = L.position
           /\ use_braces' = L.use_braces
           /\ tokens' = L.tokens
    /\ UNCHANGED <<source, pc, ast, analysis, result, ran, optVars, visited, manager, got>>

\* tokenize: the loop has ended, EOF is pushed and the tokens are returned
LexEOF ==
    /\ pc = "lex"
    /\ current_char(lexer) = None
    /\ tokens' = Append(tokens, Tok("EOF"))
    /\ pc' = "parse"
    /\ ran' = Append(ran, "lex")
    /\ UNCHANGED <<source, position, use_braces, ast, analysis, result, optVars, visited, manager, got>>

\* parser.parse().map_err(|e| format!("Parse error: {}", e))?
Parse ==
    /\ pc = "parse"
    /\ LET r == parse(tokens)
       IN  /\ ast' = r
           /\ IF r.ok
              THEN pc' = "analyze" /\ result' = result
              ELSE pc' = "done" /\ result' = Err("Parse error: ", r.err)
    /\ ran' = Append(ran, "parse")
    /\ UNCHANGED <<source, position, use_braces, tokens, analysis, optVars, visited, manager, got>>

\* A plausible slip: the analyzer's verdict is dropped and codegen always runs.
Analyze_unchecked ==
    /\ pc = "analyze"
    /\ analysis' = analyze(ast.node)
    /\ pc' = "generate"
    /\ ran' = Append(ran, "analyze")
    /\ UNCHANGED <<source, position, use_braces, tokens, ast, result, optVars, visited, manager, got>>

\* analyzer.analyze(&ast).map_err(|errors| format!("Semantic errors: {:?}", errors))?
Analyze ==
    /\ pc = "analyze"
    /\ LET a == analyze(ast.node)
       IN  /\ analysis' = a
           /\ IF a.errors = <<>>
              THEN pc' = "generate" /\ result' = result
              ELSE pc' = "done" /\ result' = Err("Semantic errors: ", a.errors)
    /\ ran' = Append(ran, "analyze")
    /\ UNCHANGED <<source, position, use_braces, tokens, ast, optVars, visited, manager, got>>

\* generator.generate(&ast); Ok(llvm_ir)
Generate ==
    /\ pc = "generate"
    /\ result' = Ok(generate(ast.node))
    /\ pc' = "done"
    /\ ran' = Append(ran, "generate")
    /\ UNCHANGED <<source, position, use_braces, tokens, ast, analysis, optVars, visited, manager, got>>

Next == LexStep \/ LexEOF \/ Parse \/ Analyze \/ Generate

Spec == Init /\ [][Next]_vars

\* tokenize is a sequential loop: an iteration that can run does run, and so
\* does the push of EOF once the loop has ended.  The sources are those of
\* Spec without the two families that vary pragmas only; the pragma
\* directive itself is in the example programs.
FairSources == Sources \ (PragmaSources \cup PragmaPrograms)

InitFair == Init /\ source \in FairSources

FairSpec == InitFair /\ [][Next]_vars /\ WF_vars(LexStep) /\ WF_vars(LexEOF)

(***************************************************************************)
(* ASTOptimizer::optimize applied by a caller to a tree, pass after pass   *)
(***************************************************************************)
\* Lexer and parser run on a text, as compile runs them.
ParsedProgram(src) == parse(tokenize(src))

OptSources ==
    {SrcPipelineDecl, SrcPipelineExpr, SrcFoldDecl, SrcFoldStmt, SrcMatchStmt, SrcIf,
     SrcWhile, SrcClass, SrcExample1, SrcExample3} \cup PipeSources \cup OpSources

OptLeaves ==
    {Number(Whole(n)) : n \in 0..MaxLit}
    \cup {Boolean(TRUE), Boolean(FALSE), Identifier("x")}

OptOperands == {Number(Whole(n)) : n \in 0..MaxLit} \cup {Identifier("x")}

OptExprs1 ==
    {Binary(a, op, b) : a \in OptLeaves, b \in OptLeaves, op \in {"+", "-", "*", "/", "=="}}
    \cup {Unary(u, a) : u \in {"-", "!"}, a \in OptLeaves}

OptExprs2 ==
    {Binary(e, op, l) : e \in OptExprs1, op \in {"+", "/"}, l \in OptOperands}
    \cup {Binary(l, op, e) : e \in OptExprs1, op \in {"+", "/"}, l \in OptOperands}
    \cup {Unary("-", e) : e \in OptExprs1}

OptConds ==
    {Boolean(TRUE), Boolean(FALSE), Identifier("x"),
     Binary(Number(Whole(1)), "==", Number(Whole(1))), Unary("!", Boolean(TRUE))}

OptBodies ==
    {Binary(Number(Whole(1)), "+", Number(Whole(2))), Identifier("x"),
     Unary("-", Binary(Number(Whole(1)), "*", Number(Whole(2))))}

OptIfs1 ==
    {If(c, <<t>>, e) : c \in OptConds, t \in OptBodies,
                       e \in {NoneOpt} \cup {Some(<<b>>) : b \in OptBodies}}

OptIfs2 ==
    {If(c, <<i>>, NoneOpt) : c \in OptConds, i \in OptIfs1}
    \cup {If(c, <<t>>, Some(<<i>>)) : c \in OptConds, t \in OptBodies, i \in OptIfs1}

OptTrees ==
    {ParsedProgram(src).node : src \in OptSources}
    \cup OptLeaves \cup OptExprs1 \cup OptExprs2 \cup OptIfs1
    \cup {Program(<<i>>) : i \in OptIfs2}

InitOpt ==
    /\ source = <<>>
    /\ pc = "idle"
    /\ position = 0
    /\ use_braces = TRUE
    /\ tokens = <<>>
    /\ ast = Unset
    /\ analysis = Unset
    /\ result = Unset
    /\ ran = <<>>
    /\ opt_in \in OptTrees
    /\ tree = opt_in
    /\ passes = 0
    /\ visited = 0
    /\ manager = Unset
    /\ got = Unset

\* ASTOptimizer::optimize(&mut tree)
Optimize ==
    /\ pc = "idle"
    /\ passes < MaxPasses
    /\ tree' = optimize(tree)
    /\ passes' = passes + 1
    /\ UNCHANGED <<source, pc, position, use_braces, tokens, ast, analysis, result, ran,
                   opt_in, visited, manager, got>>

NextOpt == Optimize

SpecOpt == InitOpt /\ [][NextOpt]_vars

(***************************************************************************)
(* SemanticAnalyzer::analyze on a tree built by a caller, one action per   *)
(* iteration of the Program arm's loop                                     *)
(***************************************************************************)
SemNames == {"x", "t"}

SemValues == {Number(Whole(2)), Identifier("y"), TemporalAccess("q", Number(Whole(0))),
              Binary(Identifier("x"), "+", Number(Whole(1)))}

SemDecls ==
    {VarDecl(n, Number(Whole(1)), c, t) : n \in SemNames, c \in BOOLEAN, t \in BOOLEAN}

SemAssignments == {Assignment(n, v) : n \in SemNames, v \in SemValues}

SemTrees ==
    {Program(<<a>>) : a \in SemAssignments}
    \cup {Program(<<d, a>>) : d \in SemDecls, a \in SemAssignments}
    \cup {Program(<<d, a, Assignment(n, Number(Whole(3)))>>) :
            d \in SemDecls, a \in SemAssignments, n \in SemNames}
    \cup {Program(<<d, FunctionDecl("f", <<"p">>, <<a>>)>>) :
            d \in SemDecls, a \in SemAssignments}

InitSem ==
    /\ source = <<>>
    /\ pc = "visit"
    /\ position = 0
    /\ use_braces = TRUE
    /\ tokens = <<>>
    /\ \E root \in SemTrees : ast = POk(root, 0)
    /\ analysis = NewAnalyzer
    /\ result = Unset
    /\ ran = <<>>
    /\ opt_in = Unset
    /\ tree = Unset
    /\ passes = 0
    /\ visited = 0
    /\ manager = Unset
    /\ got = Unset

\* visit(Program): one iteration of `for stmt in statements { self.visit(stmt) }`
SemVisit ==
    /\ pc = "visit"
    /\ visited < Len(ast.node.statements)
    /\ analysis' = visit(analysis, ast.node.statements[visited + 1])
    /\ visited' = visited + 1
    /\ UNCHANGED <<source, pc, position, use_braces, tokens, ast, result, ran, optVars, manager, got>>

\* visit(Program): the loop has ended, timestamp += 1; analyze returns Ok(())
\* when no error was recorded and Err(errors) otherwise.
SemReturn ==
    /\ pc = "visit"
    /\ visited = Len(ast.node.statements)
    /\ analysis' = tick(analysis)
    /\ result' = IF analysis.errors = <<>> THEN Ok(<<>>)
                 ELSE Err("Semantic errors: ", analysis.errors)
    /\ pc' = "analyzed"
    /\ UNCHANGED <<source, position, use_braces, tokens, ast, ran, optVars, visited, manager, got>>

NextSem == SemVisit \/ SemReturn

SpecSem == InitSem /\ [][NextSem]_vars

(***************************************************************************)
(* PatternMatcher::compile_match called on a scrutinee and a case vector   *)
(***************************************************************************)
MaxCases == 3      \* longest case vector handed to compile_match

MatchScrutinees == {Identifier("x"), Number(Whole(200))}

MatchPatterns ==
    {Number(Whole(200)), Identifier("default"), Identifier("y"), String("default")}

MatchBodies == {<<Number(Whole(1))>>, <<Identifier("x"), Identifier("y")>>}

MatchCases == {<<p, b>> : p \in MatchPatterns, b \in MatchBodies}

RECURSIVE CaseVectors(_)
CaseVectors(n) ==
    IF n = 0 THEN {<<>>}
    ELSE CaseVectors(n - 1)
         \cup {Append(v, c) : v \in {w \in CaseVectors(n - 1) : Len(w) = n - 1},
                              c \in MatchCases}

InitMatch ==
    /\ source = <<>>
    /\ pc = "match"
    /\ position = 0
    /\ use_braces = TRUE
    /\ tokens = <<>>
    /\ ast = Unset
    /\ analysis = Unset
    /\ result = Unset
    /\ ran = <<>>
    /\ \E e \in MatchScrutinees, cases \in CaseVectors(MaxCases) : opt_in = Match(e, cases)
    /\ tree = Unset
    /\ passes = 0
    /\ visited = 0
    /\ manager = Unset
    /\ got = Unset

\* let r = PatternMatcher::compile_match(&expr, &cases)
CompileMatch ==
    /\ pc = "match"
    /\ result' = compile_match(opt_in.expr, opt_in.cases)
    /\ pc' = "matched"
    /\ UNCHANGED <<source, position, use_braces, tokens, ast, analysis, ran, opt_in, tree,
                   passes, visited, manager, got>>

NextMatch == CompileMatch

SpecMatch == InitMatch /\ [][NextMatch]_vars

(***************************************************************************)
(* TemporalManager                                                         *)
(*                                                                         *)
(* A manager value is [timelines, current_time]; timelines is a function   *)
(* from names to sequences of <<timestamp, value>> pairs (the HashMap of   *)
(* Vec<(usize, FluxValue)>).  The manager and the analyzer's symbol table  *)
(* are the two places where the program keeps timelines; they never        *)
(* interact, so a behaviour of SpecTemporal drives one of the two.         *)
(***************************************************************************)
MaxTime == 2       \* advance_time is called at most this many times
MaxEntries == 3    \* update_temporal_var stops once this many entries are stored

FluxNumber(n) == [kind |-> "Number", num |-> n]
FluxBoolean(b) == [kind |-> "Boolean", bool |-> b]

TemporalNames == {"a", "b"}             \* names the caller creates
QueryNames == TemporalNames \cup {"c"}  \* names the caller asks for
TemporalValues == {FluxNumber(Whole(1)), FluxBoolean(TRUE)}
Timestamps == 0..(MaxTime + 1)

Unit == [unit |-> TRUE]                 \* ()
OkUnit == [ok |-> TRUE]                 \* Ok(())
ErrMsg(msg) == [ok |-> FALSE, msg |-> msg]

\* TemporalManager::new
NewManager == [timelines |-> [n \in {} |-> <<>>], current_time |-> 0]

\* create_temporal_var: the new one-entry timeline replaces any stored one.
create_temporal_var(M, name, initial_value) ==
    [M EXCEPT !.timelines = [n \in DOMAIN M.timelines \cup {name} |->
                                IF n = name THEN <<<<M.current_time, initial_value>>>>
                                ELSE M.timelines[n]]]

update_temporal_var_prepend(M, name, value) ==
    IF name \in DOMAIN M.timelines
    THEN [manager |-> [M EXCEPT !.timelines[name] = <<<<M.current_time, value>>>> \o @],
          ret |-> OkUnit]
    ELSE [manager |-> M, ret |-> ErrMsg("Temporal variable '" \o name \o "' not found")]

\* update_temporal_var: push (current_time, value) when the name has a timeline.
update_temporal_var(M, name, value) ==
    IF name \in DOMAIN M.timelines
    THEN [manager |-> [M EXCEPT !.timelines[name] = Append(@, <<M.current_time, value>>)],
          ret |-> OkUnit]
    ELSE [manager |-> M, ret |-> ErrMsg("Temporal variable '" \o name \o "' not found")]

\* timeline.iter().rev().find(|(time, _)| *time <= timestamp): scan from index i down.
RECURSIVE rev_find(_, _, _)
rev_find(timeline, i, timestamp) ==
    IF i = 0 THEN NoneOpt
    ELSE IF timeline[i][1] <= timestamp THEN Some(timeline[i][2])
    ELSE rev_find(timeline, i - 1, timestamp)

RECURSIVE find_from(_, _, _)
find_from(timeline, i, timestamp) ==
    IF i > Len(timeline) THEN NoneOpt
    ELSE IF timeline[i][1] <= timestamp THEN Some(timeline[i][2])
    ELSE find_from(timeline, i + 1, timestamp)

get_at_time_oldest(M, name, timestamp) ==
    IF name \in DOMAIN M.timelines
    THEN find_from(M.timelines[name], 1, timestamp)
    ELSE NoneOpt

get_at_time(M, name, timestamp) ==
    IF name \in DOMAIN M.timelines
    THEN rev_find(M.timelines[name], Len(M.timelines[name]), timestamp)
    ELSE NoneOpt

advance_time(M) == [M EXCEPT !.current_time = @ + 1]

\* freeze_variable only reports whether the name is known.
freeze_variable(M, name) ==
    IF name \in DOMAIN M.timelines THEN OkUnit
    ELSE ErrMsg("Variable '" \o name \o "' not found")

RECURSIVE TotalEntries(_, _)
TotalEntries(M, names) ==
    IF names = {} THEN 0
    ELSE LET n == CHOOSE x \in names : TRUE
         IN  Len(M.timelines[n]) + TotalEntries(M, names \ {n})

InitManager ==
    /\ source = <<>>
    /\ pc = "manager"
    /\ position = 0
    /\ use_braces = TRUE
    /\ tokens = <<>>
    /\ ast = Unset
    /\ analysis = Unset
    /\ result = Unset
    /\ ran = <<>>
    /\ opt_in = Unset
    /\ tree = Unset
    /\ passes = 0
    /\ visited = 0
    /\ manager = NewManager
    /\ got = Unset

restVars == <<source, pc, position, use_braces, tokens, ast, analysis, result, ran,
              opt_in, tree, passes, visited>>

CreateTemporalVar ==
    /\ pc = "manager"
    /\ \E name \in TemporalNames, v \in TemporalValues :
          manager' = create_temporal_var(manager, name, v)
    /\ got' = Unit
    /\ UNCHANGED restVars

UpdateTemporalVar ==
    /\ pc = "manager"
    /\ TotalEntries(manager, DOMAIN manager.timelines) < MaxEntries
    /\ \E name \in QueryNames, v \in TemporalValues :
          LET r == update_temporal_var(manager, name, v)
          IN  manager' = r.manager /\ got' = r.ret
    /\ UNCHANGED restVars

GetAtTime ==
    /\ pc = "manager"
    /\ \E name \in QueryNames, t \in Timestamps :
          got' = [name |-> name, timestamp |-> t, ret |-> get_at_time(manager, name, t)]
    /\ UNCHANGED <<manager, restVars>>

AdvanceTime ==
    /\ pc = "manager"
    /\ manager.current_time < MaxTime
    /\ manager' = advance_time(manager)
    /\ got' = Unit
    /\ UNCHANGED restVars

FreezeVariable ==
    /\ pc = "manager"
    /\ \E name \in QueryNames : got' = freeze_variable(manager, name)
    /\ UNCHANGED <<manager, restVars>>

NextManager ==
    CreateTemporalVar \/ UpdateTemporalVar \/ GetAtTime \/ AdvanceTime \/ FreezeVariable

InitTemporal == InitManager \/ InitSem

NextTemporal == NextManager \/ NextSem

SpecTemporal == InitTemporal /\ [][NextTemporal]_vars

(***************************************************************************)
(* Properties                                                              *)
(***************************************************************************)
\* The string a sequence of characters spells.
RECURSIVE Str(_)
Str(chars) == IF chars = <<>> THEN "" ELSE Head(chars) \o Str(Tail(chars))

\* Every node of a tree, parents before children, with repetitions.
RECURSIVE NodeList(_), NodeLists(_), CaseNodes(_)
NodeLists(nodes) ==
    IF nodes = <<>> THEN <<>> ELSE NodeList(Head(nodes)) \o NodeLists(Tail(nodes))

CaseNodes(cases) ==
    IF cases = <<>> THEN <<>>
    ELSE NodeList(Head(cases)[1]) \o NodeLists(Head(cases)[2]) \o CaseNodes(Tail(cases))

NodeList(node) ==
    <<node>> \o
    CASE node.kind = "Program" -> NodeLists(node.statements)
      [] node.kind \in {"VarDecl", "Assignment", "Return"} -> NodeList(node.value)
      [] node.kind = "FunctionDecl" -> NodeLists(node.body)
      [] node.kind = "While" -> NodeList(node.condition) \o NodeLists(node.body)
      [] node.kind = "ClassDecl" -> NodeLists(node.methods)
      [] node.kind = "If" ->
            NodeList(node.condition) \o NodeLists(node.then_branch)
            \o (IF node.else_branch # NoneOpt THEN NodeLists(node.else_branch[1]) ELSE <<>>)
      [] node.kind = "Binary" -> NodeList(node.left) \o NodeList(node.right)
      [] node.kind = "Unary" -> NodeList(node.operand)
      [] node.kind = "Call" -> NodeList(node.callee) \o NodeLists(node.args)
      [] node.kind = "MemberAccess" -> NodeList(node.object)
      [] node.kind = "TemporalAccess" -> NodeList(node.timestamp)
      [] node.kind = "Pipeline" -> NodeLists(node.exprs)
      [] node.kind = "Match" -> NodeList(node.expr) \o CaseNodes(node.cases)
      [] OTHER -> <<>>

NodesOfKind(node, kind) ==
    LET l == NodeList(node) IN {i \in DOMAIN l : l[i].kind = kind}

Stages == <<"lex", "parse", "analyze", "generate">>

Parsed == pc \in {"analyze", "generate", "done"}

HasError(msg, name) ==
    \E i \in DOMAIN result.detail : result.detail[i] = SemErr(msg, name)

FailedInAnalysis == ~result.ok /\ result.prefix = "Semantic errors: "

Num(n) == Number(Whole(n))

\* C1: compile runs lexer, parser, analyzer, generator in that order and
\* gates each stage on the one before: the result is Ok exactly when the
\* parser returned Ok and the analyzer recorded no error; a parser failure
\* gives Err "Parse error: ..." with neither analysis nor generation run; an
\* analyzer error gives Err "Semantic errors: ..." with no generation run.
C1_StagesGated ==
    /\ Len(ran) <= Len(Stages)
    /\ ran = SubSeq(Stages, 1, Len(ran))
    /\ pc = "done" =>
         /\ result.ok <=> (ast.ok /\ analysis # Unset /\ analysis.errors = <<>>)
         /\ result.ok => ran = Stages
         /\ ~ast.ok =>
              /\ ~result.ok
              /\ result.prefix = "Parse error: "
              /\ result.detail = ast.err
              /\ ran = <<"lex", "parse">>
              /\ analysis = Unset
         /\ (ast.ok /\ analysis.errors # <<>>) =>
              /\ FailedInAnalysis
              /\ result.detail = analysis.errors
              /\ ran = <<"lex", "parse", "analyze">>

C1_Witness ==
    /\ pc = "done"
    /\ ast.ok
    /\ FailedInAnalysis
    /\ ran = <<"lex", "parse", "analyze">>

\* C2: a source `const x = E1` followed by `x = E2` makes compile return an
\* error that semantic analysis produced and that names the const
\* reassignment.
C2_ConstReassignRejectedByAnalysis ==
    \A n \in VarNames, a \in {10, 20}, b \in {10, 20} :
        (pc = "done"
            /\ source = DeclSrc(KwConst, n, NumChars(a)) \o NL \o AssignSrc(n, NumChars(b)))
        => (FailedInAnalysis /\ HasError("Cannot reassign to const variable", Str(n)))

\* C3: when x is declared by `let` or `const` without `temporal`, a program
\* that goes on with `let u = x[k]` fails in semantic analysis with the
\* diagnostic that x is not temporal.
C3_NonTemporalIndexRejected ==
    \A kw \in {KwLet, KwConst}, n \in VarNames, e \in InitExprs, k \in IndexExprs :
        (pc = "done" /\ source = DeclSrc(kw, n, e) \o NL \o IndexSrc(<<"u">>, n, k))
        => (FailedInAnalysis /\ HasError("Variable is not temporal", Str(n)))

C3_Witness ==
    /\ pc = "done"
    /\ source = DeclSrc(KwConst, <<"x">>, <<"1">>) \o NL \o IndexSrc(<<"u">>, <<"x">>, <<"0">>)
    /\ FailedInAnalysis

\* The node an index expression of IndexExprs stands for.
IndexNode(k) ==
    CASE k = <<"0">> -> Num(0) [] k = <<"1">> -> Num(1) [] k = <<"k">> -> Identifier("k")

\* C4: `temporal let t = E` followed by `let u = t[k]` compiles (Ok) and
\* its AST holds exactly one TemporalAccess node, with var t and the index
\* expression as timestamp.
C4_TemporalIndexCompiles ==
    \A n \in VarNames, e \in InitExprs, k \in IndexExprs :
        (pc = "done"
            /\ source = DeclSrc(KwTemporal \o SP \o KwLet, n, e) \o NL \o IndexSrc(<<"u">>, n, k))
        => /\ result.ok
           /\ Cardinality(NodesOfKind(ast.node, "TemporalAccess")) = 1
           /\ ast.node.statements[2] =
                  VarDecl("u", TemporalAccess(Str(n), IndexNode(k)), FALSE, FALSE)

C4_Witness ==
    /\ pc = "done"
    /\ source = DeclSrc(KwTemporal \o SP \o KwLet, <<"t">>, <<"1">>)
                    \o NL \o IndexSrc(<<"u">>, <<"t">>, <<"0">>)
    /\ result.ok
    /\ ast.node.statements[2].value = TemporalAccess("t", Num(0))

\* The precedence ladder as the specification states it.
Prec(op) ==
    CASE op = "||" -> 1 [] op = "&&" -> 2 [] op \in {"==", "!="} -> 3
      [] op \in {"<", ">", "<=", ">="} -> 4 [] op \in {"+", "-"} -> 5
      [] op \in {"*", "/", "%"} -> 6

\* What `a op1 b op2 c` must parse to: the tighter operator groups first,
\* equal levels group to the left.
Expected3(a, op1, b, op2, c) ==
    IF Prec(op1) >= Prec(op2)
    THEN Binary(Binary(Num(a), op1, Num(b)), op2, Num(c))
    ELSE Binary(Num(a), op1, Binary(Num(b), op2, Num(c)))

\* C5: expressions parse by the ladder pipeline < || < && < equality <
\* comparison < additive < multiplicative < unary, binary operators grouping
\* to the left: `a + b * c` is Binary(+, a, Binary(*, b, c)), `a == b && c`
\* is Binary(&&, Binary(==, a, b), c), `a - b - c` is
\* Binary(-, Binary(-, a, b), c), for all literals a, b, c.
C5_Precedence ==
    Parsed =>
      /\ \A op1 \in BinOps, op2 \in BinOps :
            source = OpSrc(1, op1, 2, op2, 3) =>
                /\ ast.ok
                /\ ast.node = Program(<<Expected3(1, Str(op1), 2, Str(op2), 3)>>)
      /\ \A a \in 0..MaxLit, b \in 0..MaxLit, c \in 0..MaxLit :
            /\ source = OpSrc(a, <<"+">>, b, <<"*">>, c) =>
                  ast.ok /\ ast.node = Program(<<Binary(Num(a), "+", Binary(Num(b), "*", Num(c)))>>)
            /\ source = OpSrc(a, <<"=", "=">>, b, <<"&", "&">>, c) =>
                  ast.ok /\ ast.node = Program(<<Binary(Binary(Num(a), "==", Num(b)), "&&", Num(c))>>)
            /\ source = OpSrc(a, <<"-">>, b, <<"-">>, c) =>
                  ast.ok /\ ast.node = Program(<<Binary(Binary(Num(a), "-", Num(b)), "-", Num(c))>>)
      /\ \A u \in UnOps, op \in BinOps :
            source = UnarySrc(u, 1, op, 2) =>
                ast.ok /\ ast.node = Program(<<Binary(Unary(Str(u), Num(1)), Str(op), Num(2))>>)
      /\ \A op \in BinOps :
            source = PipeOpSrc(1, 2, op, 3) =>
                ast.ok /\ ast.node = Program(<<Pipeline(<<Num(1), Binary(Num(2), Str(op), Num(3))>>)>>)

C5_Witness ==
    /\ Parsed
    /\ source = OpSrc(1, <<"+">>, 2, <<"*">>, 0)
    /\ ast.ok
    /\ ast.node.statements[1].right.kind = "Binary"

\* The node a stage of StageExprs stands for.
StageNode(st) == IF st = <<"5">> THEN Num(5) ELSE Identifier(Str(st))

\* C6: n expressions separated by n-1 `|` parse to one Pipeline of those n
\* stages in source order when n >= 2 and to the bare expression when
\* n = 1; no Pipeline the parser produces has fewer than 2 elements.
C6_PipelineShape ==
    Parsed =>
      /\ \A st \in StageLists :
            source = PipeSrc(st) =>
                /\ ast.ok
                /\ ast.node = Program(<<IF Len(st) = 1 THEN StageNode(st[1])
                                        ELSE Pipeline([i \in 1..Len(st) |->
                                                          StageNode(st[i])])>>)
      /\ ast.ok =>
            LET l == NodeList(ast.node)
            IN  \A i \in DOMAIN l : l[i].kind = "Pipeline" => Len(l[i].exprs) >= 2

C6_Witness ==
    /\ Parsed
    /\ source = PipeSrc(<<(<<"x">>), (<<"f">>), (<<"5">>)>>)
    /\ ast.ok
    /\ ast.node.statements[1] = Pipeline(<<Identifier("x"), Identifier("f"), Num(5)>>)

\* C7: after an optimization pass no Pipeline node remains: `a | f | g` has
\* become Call(g, [Call(f, [a])]) and the initializer of
\* `let v = 5 | double | add_ten` has become
\* Call(add_ten, [Call(double, [Number(5)])]).
C7_PipelinesLowered ==
    passes >= 1 =>
      /\ NodesOfKind(tree, "Pipeline") = {}
      /\ opt_in = ParsedProgram(SrcPipelineExpr).node =>
            tree = Program(<<Call(Identifier("g"),
                                  <<Call(Identifier("f"), <<Identifier("a")>>)>>)>>)
      /\ opt_in = ParsedProgram(SrcPipelineDecl).node =>
            tree.statements[1].value =
                Call(Identifier("add_ten"), <<Call(Identifier("double"), <<Num(5)>>)>>)

\* C8: after an optimization pass the initializer of `let c = 2 + 3 * 4` is
\* the literal Number(14).
C8_DeclInitializerFolded ==
    (passes >= 1 /\ opt_in = ParsedProgram(SrcFoldDecl).node) =>
        tree = Program(<<VarDecl("c", Num(14), FALSE, FALSE)>>)

\* C9: optimize is idempotent: a pass applied to a tree that has already
\* been through a pass leaves it as it is.
C9_Idempotent == [][passes >= 1 => tree' = tree]_vars

C9_Witness ==
    /\ passes = 2
    /\ opt_in = Binary(Binary(Num(1), "+", Num(2)), "+", Num(2))
    /\ tree = Num(5)

\* C10: `let m = match 200 { 200 => "OK"; 404 => "NF"; default => "?" }`
\* is accepted by lexer and parser, and after optimization the declaration's
\* initializer is a nest of If nodes whose outermost condition is
\* Binary(==, Number(200), Number(200)).
C10_MatchDeclLowered ==
    (Parsed /\ source = SrcMatchDecl) =>
        /\ ast.ok
        /\ LET o == optimize(ast.node)
           IN  /\ o.statements[1].kind = "VarDecl"
               /\ o.statements[1].value.kind = "If"
               /\ o.statements[1].value.condition = Binary(Num(200), "==", Num(200))

\* The text `word` stands in the source at offset pos.
StartsWith(pos, word) ==
    /\ pos + Len(word) <= Len(source)
    /\ SubSeq(source, pos + 1, pos + Len(word)) = word

\* The lexer stands at a `#pragma` directive: the word after `#` is exactly pragma.
AtPragma ==
    /\ StartsWith(position, HashPragma)
    /\ (position + Len(HashPragma) < Len(source)
          => source[position + Len(HashPragma) + 1] \notin Letters \cup Digits \cup {"_"})

\* The value of use_braces the pragmas emitted so far call for: true at the
\* start, then what the most recent braces / indent / no_braces pragma says.
RECURSIVE PragmaMode(_)
PragmaMode(toks) ==
    IF toks = <<>> THEN TRUE
    ELSE LET t == toks[Len(toks)]
         IN  IF t.type = "Pragma" /\ t.text \in {"braces", "indent", "no_braces"}
             THEN t.text = "braces"
             ELSE PragmaMode(SubSeq(toks, 1, Len(toks) - 1))

\* What the loop of tokenize appends for `{`, `}` or a newline under a mode.
BraceOrNewline(ch, mode) ==
    CASE ch = "\n" -> IF mode THEN <<>> ELSE <<Tok("Newline")>>
      [] ch = "{" -> IF mode THEN <<Tok("LeftBrace")>> ELSE <<>>
      [] ch = "}" -> IF mode THEN <<Tok("RightBrace")>> ELSE <<>>

\* C11: a pragma affects only what comes after it.  When the lexer reaches a
\* `#pragma` the tokens emitted for the text before it are those of that text
\* tokenized alone; use_braces is true at the start and otherwise what the
\* most recent preceding pragma set; each `{`, `}` and newline is handled by
\* that value (true: braces emit LeftBrace/RightBrace, newlines nothing;
\* false: braces nothing, each newline a Newline), and no step takes back a
\* token already emitted.
C11_PragmaScoping ==
    /\ [](pc = "lex" /\ AtPragma
            => tokens = tokenize_loop(NewLexer(SubSeq(source, 1, position))).tokens)
    /\ [](pc = "lex" => use_braces = PragmaMode(tokens))
    /\ [][pc = "lex" /\ current_char(lexer) \in {"{", "}", "\n"}
            => tokens' = tokens \o BraceOrNewline(current_char(lexer), PragmaMode(tokens))]_vars
    /\ [][pc = "lex" /\ pc' = "lex"
            => /\ Len(tokens') >= Len(tokens)
               /\ SubSeq(tokens', 1, Len(tokens)) = tokens]_vars

\* A LeftBrace emitted before `#pragma indent`, the pragma, and a Newline
\* emitted after it; a later `#pragma braces` is still to come.
C11_Witness ==
    /\ pc = "lex"
    /\ source \in PragmaSources
    /\ AtPragma
    /\ \E i, j, k \in DOMAIN tokens :
            /\ i < j /\ j < k
            /\ tokens[i] = Tok("LeftBrace")
            /\ tokens[j] = TokText("Pragma", "indent")
            /\ tokens[k] = Tok("Newline")
    /\ ~use_braces

\* The emitted line `%tN = fadd double 0.0, n` for the literal n.
IsLiteralLine(line, n) ==
    /\ line.op = "fadd"
    /\ "lit" \in DOMAIN line
    /\ line.a = "0.0"
    /\ line.lit = n

\* The numeric literals of a tree.
Literals(node) ==
    LET l == NodeList(node) IN {l[i].num : i \in NodesOfKind(node, "Number")}

\* C12: for every numeric literal n of a program that compiles, the emitted IR
\* holds an instruction `fadd double 0.0, n`, wherever the literal occurs
\* (declaration initializer, operand of a unary or binary operator, call
\* argument, condition, top-level expression statement).
C12_LiteralsLowered ==
    pc = "done" /\ result.ok
        => \A n \in Literals(ast.node) :
                \E i \in DOMAIN result.ir : IsLiteralLine(result.ir[i], n)

\* C13: compile applies the optimizer once, after the analysis succeeded and
\* before code generation: the tree the generator is about to read is the
\* optimized one (a top-level `2 + 3` is the single literal 5), and it holds
\* no Match and no Pipeline node.
C13_OptimizedBeforeCodegen ==
    pc = "generate"
        => /\ ast.node = optimize(ast.node)
           /\ NodesOfKind(ast.node, "Pipeline") = {}
           /\ NodesOfKind(ast.node, "Match") = {}

\* The statement the analyzer visits next.
NextStmt == ast.node.statements[visited + 1]

VisitingAssignment ==
    /\ pc = "visit"
    /\ visited < Len(ast.node.statements)
    /\ NextStmt.kind = "Assignment"

\* C14: visiting Assignment{name, value} when the table holds name with
\* is_const appends exactly one diagnostic "Cannot reassign to const variable
\* '<name>'" and leaves the symbol table as it was; when name is absent an
\* "Undefined variable" diagnostic is appended; when name is present and not
\* const the only diagnostics appended are those of visiting the value; and
\* analyze returns Err exactly when a diagnostic was recorded.
C14_AssignmentDiagnostics ==
    /\ [][VisitingAssignment =>
            LET name == NextStmt.name
                table == analysis.symbol_table
                errors == analysis.errors
            IN  /\ analysis'.symbol_table = table
                /\ (name \in DOMAIN table /\ table[name].is_const)
                      => analysis'.errors =
                            Append(errors, SemErr("Cannot reassign to const variable", name))
                /\ name \notin DOMAIN table
                      => /\ Len(analysis'.errors) > Len(errors)
                         /\ SubSeq(analysis'.errors, 1, Len(errors) + 1) =
                                Append(errors, SemErr("Undefined variable", name))
                /\ (name \in DOMAIN table /\ ~table[name].is_const)
                      => analysis'.errors = visit(analysis, NextStmt.value).errors]_vars
    /\ [][pc = "visit" /\ pc' = "visit"
            => SubSeq(analysis'.errors, 1, Len(analysis.errors)) = analysis.errors]_vars
    /\ [](pc = "analyzed" => (result.ok <=> analysis.errors = <<>>))

\* analyze has returned Err for a program whose const x was assigned: the one
\* diagnostic is the const one and x is still in the table as declared.
C14_Witness ==
    /\ pc = "analyzed"
    /\ \E v \in SemValues :
          ast.node.statements =
              <<VarDecl("x", Number(Whole(1)), TRUE, FALSE), Assignment("x", v)>>
    /\ ~result.ok
    /\ result.detail = <<SemErr("Cannot reassign to const variable", "x")>>
    /\ analysis.symbol_table["x"].is_const

\* The name the directive at the lexer's position carries: the identifier
\* after `#pragma` and the blanks that follow it (empty when there is none).
PragmaNameHere ==
    read_identifier(skip_whitespace(
        [lexer EXCEPT !.position = position + Len(HashPragma)])).value

\* The token sequence without its Pragma tokens.
NoPragmas(toks) == SelectSeq(toks, LAMBDA t : t.type # "Pragma")

\* C15: on `#pragma <name>` the lexer sets use_braces to true for `braces`,
\* to false for `indent` and `no_braces`, and leaves it for any other name;
\* in each case it appends exactly one Pragma(name) token; Parser::parse,
\* finding a Pragma token where a statement would start, goes on as if from
\* the token after it, and a program that parsed has the AST of its tokens
\* without the Pragma tokens.
C15_PragmaHandling ==
    /\ [][pc = "lex" /\ AtPragma
            => /\ tokens' = Append(tokens, TokText("Pragma", PragmaNameHere))
               /\ use_braces' =
                    (CASE PragmaNameHere = "braces" -> TRUE
                       [] PragmaNameHere \in {"indent", "no_braces"} -> FALSE
                       [] OTHER -> use_braces)]_vars
    /\ [](Parsed =>
            \A i \in DOMAIN tokens :
                tokens[i].type = "Pragma"
                    => parse_loop(tokens, POk(<<>>, i - 1)) = parse_loop(tokens, POk(<<>>, i)))
    /\ [](Parsed /\ ast.ok => ast.node = parse(NoPragmas(tokens)).node)

\* `#pragma strict let x = 1 #pragma no_braces f(x)` has been parsed: both
\* Pragma tokens are in the token stream, use_braces ended false, and the
\* program is the two statements.
C15_Witness ==
    /\ Parsed
    /\ ast.ok
    /\ \E i, j \in DOMAIN tokens :
            /\ i < j
            /\ tokens[i] = TokText("Pragma", "strict")
            /\ tokens[j] = TokText("Pragma", "no_braces")
    /\ ~use_braces
    /\ Len(ast.node.statements) = 2
    /\ ast.node.statements[1].kind = "VarDecl"
    /\ ast.node.statements[2].kind = "Call"

\* The offset of the first newline at or after the lexer's position, or the
\* length of the source when the line is the last.
LineEnd ==
    LET ends == {i \in position..Len(source) : i = Len(source) \/ source[i + 1] = "\n"}
    IN  CHOOSE i \in ends : \A j \in ends : i <= j

\* C16: when the lexer stands at a `#` that does not start the word `pragma`,
\* one iteration of tokenize consumes every character up to the next newline
\* and appends no token, whatever letter follows the `#`.
C16_CommentsConsumed ==
    [][pc = "lex" /\ current_char(lexer) = "#" /\ ~AtPragma
            => tokens' = tokens /\ position' = LineEnd]_vars

\* The positions of the EOF tokens in a token sequence.
EOFs(toks) == {i \in DOMAIN toks : toks[i].type = "EOF"}

\* C17: Lexer::tokenize terminates on every source: each iteration of its
\* loop moves the position forward by at least one character and never past
\* the end, the loop ends only at the end of the input, where EOF is pushed,
\* and the token sequence handed on holds exactly one EOF, as its last token.
C17_TokenizeTerminates ==
    /\ [][pc = "lex"
            => IF pc' = "lex"
               THEN position < position' /\ position' <= Len(source)
               ELSE position = Len(source) /\ tokens' = Append(tokens, Tok("EOF"))]_vars
    /\ [](pc = "lex" => EOFs(tokens) = {})
    /\ [](pc # "lex" => EOFs(tokens) = {Len(tokens)})
    /\ <>(pc # "lex")

\* `a & "ab` has been tokenized: the lone `&` left no token, the string
\* without a closing quote was read to the end of the input, and EOF follows.
C17_Witness ==
    /\ pc = "parse"
    /\ source = <<"a", " ", "&", " ", "\"", "a", "b">>
    /\ tokens = <<TokText("Identifier", "a"), TokText("String", "ab"), Tok("EOF")>>

\* C18: Parser::parse ends on every token sequence with one of two results:
\* Ok(Program) with the cursor on the EOF token, every token before it
\* consumed, or one Err raised at a token, after which nothing more of the
\* input is looked at (the result is that of the tokens up to the failing
\* one, whatever follows) and no later stage runs.  A program that ends
\* inside a block, a parameter list, an argument list or a match body fails
\* at the EOF token, or just past it where parse_function has taken the EOF
\* for the keyword.
\* From any position a statement that parses consumes at least one token and
\* the cursor never moves back.
C18_ParseTerminates ==
    /\ [](Parsed =>
            IF ast.ok
            THEN /\ ast.node.kind = "Program"
                 /\ ast.cur = Len(tokens) - 1
                 /\ pc # "done" \/ "analyze" \in {ran[i] : i \in DOMAIN ran}
            ELSE /\ pc = "done"
                 /\ ran = <<"lex", "parse">>
                 /\ result = Err("Parse error: ", ast.err)
                 /\ ast.cur <= Len(tokens)
                 /\ \A n \in (ast.cur + 1)..Len(tokens) :
                        parse(SubSeq(tokens, 1, n)) = ast)
    /\ [](Parsed /\ source \in UnclosedSources
            => ~ast.ok /\ ast.cur >= Len(tokens) - 1)
    /\ [](Parsed =>
            \A i \in 0..(Len(tokens) - 1) :
                /\ parse_statement(tokens, i).cur >= i
                /\ parse_statement(tokens, i).ok => parse_statement(tokens, i).cur > i)

\* `func f(a,` has been parsed: the parameter list never closes, and the one
\* error is raised at the EOF token, the sixth, with the five before it consumed.
C18_Witness ==
    /\ pc = "done"
    /\ source = <<"f", "u", "n", "c", " ", "f", "(", "a", ",">>
    /\ ~ast.ok
    /\ ast.cur = 5
    /\ tokens[6] = Tok("EOF")
    /\ ~result.ok

\* C19: a program in the indent syntax is accepted by the parser and has the
\* AST of the same program in the brace syntax.
C19_IndentSameAST ==
    Parsed =>
        \A p \in IndentPairs :
            source = p.indent => ast.ok /\ ast.node = ParsedProgram(p.braces).node

\* An If whose condition is a Boolean literal.
ConstantIf(node) == node.kind = "If" /\ node.condition.kind = "Boolean"

\* C20: once optimize has run, neither the tree it was called on nor a
\* statement of the Program it was called on is an If with a Boolean literal
\* for condition: the If has given way to its taken branch.
C20_DeadBranchEliminated ==
    passes >= 1 =>
        /\ ~ConstantIf(tree)
        /\ tree.kind = "Program"
              => \A i \in DOMAIN tree.statements : ~ConstantIf(tree.statements[i])

\* The arithmetic result of l op r for op among + - * /.
Arith(l, op, r) ==
    CASE op = "+" -> RatAdd(l, r)
      [] op = "-" -> RatSub(l, r)
      [] op = "*" -> RatMul(l, r)
      [] op = "/" -> RatDiv(l, r)

\* What a visited Binary must have become, given its optimized operands.
FoldedAsClaimed(before, after) ==
    LET l == optimize(before.left)
        r == optimize(before.right)
        op == before.operator
    IN  IF /\ l.kind = "Number" /\ r.kind = "Number"
           /\ op \in {"+", "-", "*", "/"}
           /\ ~(op = "/" /\ r.num = Whole(0))
        THEN after = Number(Arith(l.num, op, r.num))
        ELSE after = Binary(l, op, r)

\* C21: after one pass a Binary the optimizer visited (the tree itself, or a
\* statement of the Program) whose optimized operands are both Number
\* literals under + - * / is the Number of the result, except a division by
\* 0, which is still the Binary; under any other operator, or with an operand
\* that is not a literal, it is the Binary of its optimized operands.
C21_ConstantFolding ==
    passes = 1 =>
        /\ opt_in.kind = "Binary" => FoldedAsClaimed(opt_in, tree)
        /\ opt_in.kind = "Program" =>
              \A i \in DOMAIN opt_in.statements :
                  opt_in.statements[i].kind = "Binary"
                      => FoldedAsClaimed(opt_in.statements[i], tree.statements[i])

\* 2 / (1 - 1): the divisor folds to 0 and the division stays a Binary of
\* the two literals.
C21_Witness ==
    /\ passes = 1
    /\ opt_in = Binary(Num(2), "/", Binary(Num(1), "-", Num(1)))
    /\ tree = Binary(Num(2), "/", Num(0))

\* The condition the claim gives case (pattern, body) of a match on expr.
ClaimedCondition(expr, pattern) ==
    IF pattern = Identifier("default") THEN Boolean(TRUE) ELSE Binary(expr, "==", pattern)

\* node is the If for case i of cases and carries the chain of the later ones.
RECURSIVE IsChain(_, _, _, _)
IsChain(node, expr, cases, i) ==
    /\ node.kind = "If"
    /\ node.condition = ClaimedCondition(expr, cases[i][1])
    /\ node.then_branch = cases[i][2]
    /\ IF i = Len(cases) THEN node.else_branch = NoneOpt
       ELSE /\ Len(node.else_branch) = 1
            /\ Len(node.else_branch[1]) = 1
            /\ IsChain(node.else_branch[1][1], expr, cases, i + 1)

\* C22: compile_match on a scrutinee and a non-empty case vector returns Ok
\* with a right-nested chain of If nodes in source order: the outermost tests
\* case 0, the else-branch of each is the single If of the next case, the
\* last has no else-branch, each then-branch is the case's body, and the
\* condition is Boolean(true) for the pattern Identifier("default") and
\* Binary(scrutinee == pattern) for any other; on no case it returns Err.
C22_MatchChain ==
    pc = "matched" =>
        IF opt_in.cases = <<>> THEN ~result.ok
        ELSE result.ok /\ IsChain(result.node, opt_in.expr, opt_in.cases, 1)

\* Three cases, `default` in the middle: its If sits between the other two
\* with condition Boolean(true), and the last If has no else.
C22_Witness ==
    /\ pc = "matched"
    /\ Len(opt_in.cases) = 3
    /\ opt_in.cases[2][1] = Identifier("default")
    /\ opt_in.cases[3][1] = Number(Whole(200))
    /\ result.ok
    /\ result.node.else_branch[1][1].condition = Boolean(TRUE)
    /\ result.node.else_branch[1][1].else_branch[1][1].else_branch = NoneOpt

\* The analyzer has run on the parsed program.
Analyzed == pc \in {"generate", "done"} /\ ast.ok

\* The top-level declarations of name in the program.
DeclsOf(name) ==
    {i \in DOMAIN ast.node.statements :
        ast.node.statements[i].kind = "VarDecl" /\ ast.node.statements[i].name = name}

Recorded(msg, name) ==
    \E i \in DOMAIN analysis.errors : analysis.errors[i] = SemErr(msg, name)

\* C23: once the analyzer has run, every TemporalAccess of the program whose
\* variable is declared without `temporal` has its "not temporal" error among
\* the recorded ones, and every TemporalAccess of an undeclared variable its
\* "Undefined variable" error, wherever in the tree the access stands.
C23_EveryAccessChecked ==
    Analyzed =>
        \A i \in NodesOfKind(ast.node, "TemporalAccess") :
            LET var == NodeList(ast.node)[i].var
            IN  /\ (\E d \in DeclsOf(var) : ~ast.node.statements[d].is_temporal)
                      => Recorded("Variable is not temporal", var)
                /\ DeclsOf(var) = {} => Recorded("Undefined variable", var)

\* C24: a program that applies `[k]` to an expression that is not a bare
\* identifier does not compile: compile returns an error for it.
C24_IndexedExprDiagnosed ==
    (pc = "done" /\ source \in IndexedExprSources) => ~result.ok

\* The instruction the claim gives an arithmetic operator, and the fcmp
\* predicates that match an equality or ordering operator.
ArithInstr(op) ==
    CASE op = "+" -> "fadd" [] op = "-" -> "fsub" [] op = "*" -> "fmul" [] op = "/" -> "fdiv"

ComparePreds(op) ==
    CASE op = "==" -> {"oeq", "ueq"} [] op = "!=" -> {"one", "une"}
      [] op = "<" -> {"olt", "ult"} [] op = ">" -> {"ogt", "ugt"}
      [] op = "<=" -> {"ole", "ule"} [] op = ">=" -> {"oge", "uge"}

\* The lines of the IR that combine two operands arithmetically.
ArithLines(ir) ==
    {i \in DOMAIN ir : ir[i].op \in {"fadd", "fsub", "fmul", "fdiv"} /\ "b" \in DOMAIN ir[i]}

\* C25: the Binary of `let a = l op r` is lowered, for + - * /, to the one
\* fadd/fsub/fmul/fdiv of its operands, and for == != < > <= >= to an fcmp
\* with the matching predicate followed by the uitofp of its i1 result, with
\* no arithmetic instruction on the operands.
C25_BinaryLowering ==
    (pc = "done" /\ source \in BinaryDeclSources /\ result.ok) =>
        LET op == ast.node.statements[1].value.operator
            ir == result.ir
        IN  IF op \in {"+", "-", "*", "/"}
            THEN \E i \in ArithLines(ir) :
                    ArithLines(ir) = {i} /\ ir[i].op = ArithInstr(op)
            ELSE /\ ArithLines(ir) = {}
                 /\ \E i \in DOMAIN ir :
                        /\ ir[i].op = "fcmp"
                        /\ ir[i].pred \in ComparePreds(op)
                        /\ i < Len(ir)
                        /\ ir[i + 1].op = "uitofp"
                        /\ ir[i + 1].src = ir[i].dst

\* The Call nodes of the program whose callee is an identifier.
NamedCalls ==
    LET l == NodeList(ast.node)
    IN  {l[i] : i \in {j \in NodesOfKind(ast.node, "Call") : l[j].callee.kind = "Identifier"}}

\* C26: in the IR of a program that compiles, every call print(e, ...) has
\* its call to @printf with the @.str_num format, and every call of another
\* identifier f its `call double @f(...)` with one operand per argument,
\* whether the call is a statement of its own or part of an expression.
C26_CallsLowered ==
    (pc = "done" /\ result.ok) =>
        \A c \in NamedCalls :
            IF c.callee.name = "print"
            THEN c.args # <<>> =>
                    \E i \in DOMAIN result.ir :
                        result.ir[i].op = "call_printf" /\ result.ir[i].fmt = "@.str_num"
            ELSE \E i \in DOMAIN result.ir :
                    /\ result.ir[i].op = "call"
                    /\ result.ir[i].callee = "@" \o c.callee.name
                    /\ Len(result.ir[i].args) = Len(c.args)

\* The lines of the IR that open a function definition.
Defines(ir) == {i \in DOMAIN ir : ir[i].op = "define"}

\* C29: in the IR of any program function definitions do not nest: a
\* definition is closed before the next one opens, so the body of flux_main
\* holds no `define` line, and flux_main comes before main, which is last.
C29_DefinitionsDoNotNest ==
    (pc = "done" /\ result.ok) =>
        LET ir == result.ir
        IN  /\ \A i, k \in Defines(ir) :
                  i < k => \E j \in (i + 1)..(k - 1) : ir[j].op = "end_define"
            /\ \E i, k \in Defines(ir) :
                  /\ i < k
                  /\ ir[i].name = "@flux_main"
                  /\ ir[k].name = "@main"
                  /\ \A d \in Defines(ir) : d <= k

\* The value operands of an emitted line: what a store stores, a ret
\* returns, an fcmp or arithmetic instruction combines, a call passes, a
\* conditional branch tests.
Operands(line) ==
    CASE line.op \in {"store", "ret"} -> {line.value}
      [] line.op = "fcmp" -> {line.a, line.b}
      [] line.op \in {"fadd", "fsub", "fmul", "fdiv"} ->
            {line.a} \cup (IF "b" \in DOMAIN line THEN {line.b} ELSE {})
      [] line.op = "call" -> {line.args[k] : k \in DOMAIN line.args}
      [] line.op = "call_printf" -> {line.arg}
      [] line.op = "br_cond" -> {line.cond}
      [] OTHER -> {}

\* The registers defined by the lines before line i.
DefinedBefore(ir, i) == {ir[j].dst : j \in {k \in 1..(i - 1) : "dst" \in DOMAIN ir[k]}}

\* The parameters %0, %1, ... of the function whose definition line i is in.
ParamsAt(ir, i) ==
    LET opened == {j \in 1..(i - 1) : ir[j].op = "define"}
    IN  IF opened = {} THEN {}
        ELSE LET d == CHOOSE j \in opened : \A k \in opened : k <= j
             IN  {"%" \o ToString(p) : p \in 0..(ir[d].params - 1)}

\* Operands that are no register: the constants the generator writes.
ConstantOperands == {"0.0", "0", "null"}

\* C30: in the emitted IR every temporary is defined at most once, and every
\* operand of a store, ret, fcmp, br, arithmetic or call instruction that is
\* not a constant is the name of a register an earlier line defines, or a
\* parameter of the enclosing function.
C30_RegistersDefined ==
    (pc = "done" /\ result.ok) =>
        LET ir == result.ir
        IN  /\ \A i, j \in DOMAIN ir :
                  (/\ i < j
                   /\ "dst" \in DOMAIN ir[i] /\ "dst" \in DOMAIN ir[j]
                   /\ ir[i].op # "alloca" /\ ir[j].op # "alloca")
                      => ir[i].dst # ir[j].dst
            /\ \A i \in DOMAIN ir :
                  Operands(ir[i]) \subseteq
                      DefinedBefore(ir, i) \cup ParamsAt(ir, i) \cup ConstantOperands

Sorted(timeline) ==
    \A i \in 1..(Len(timeline) - 1) : timeline[i][1] <= timeline[i + 1][1]

\* C27: every timeline a TemporalManager stores is non-empty, has its
\* timestamps in non-decreasing order and none above current_time, and
\* current_time never decreases; every symbol-table entry of the
\* SemanticAnalyzer has a timeline of exactly one entry.
C27_TimelineOrdering ==
    /\ [](pc = "manager" =>
            \A n \in DOMAIN manager.timelines :
                LET timeline == manager.timelines[n]
                IN  /\ Len(timeline) >= 1
                    /\ Sorted(timeline)
                    /\ \A i \in 1..Len(timeline) : timeline[i][1] <= manager.current_time)
    /\ [][pc = "manager" => manager'.current_time >= manager.current_time]_vars
    /\ [](pc \in {"visit", "analyzed"} =>
            \A n \in DOMAIN analysis.symbol_table :
                Len(analysis.symbol_table[n].timeline) = 1)

\* A manager that was created, advanced and updated: a timeline of three
\* entries, two of them sharing a timestamp below current_time.
C27_Witness ==
    /\ pc = "manager"
    /\ manager.current_time = 2
    /\ "a" \in DOMAIN manager.timelines
    /\ Len(manager.timelines["a"]) = 3
    /\ manager.timelines["a"][1][1] = 0
    /\ manager.timelines["a"][2][1] = 1
    /\ manager.timelines["a"][3][1] = 1

\* The entry the query is said to return: among the entries stamped at most
\* t, those with the greatest timestamp, and of these the last appended.
Eligible(timeline, t) == {i \in 1..Len(timeline) : timeline[i][1] <= t}

Latest(timeline, t) ==
    CHOOSE i \in Eligible(timeline, t) :
        \A j \in Eligible(timeline, t) :
            \/ timeline[j][1] < timeline[i][1]
            \/ timeline[j][1] = timeline[i][1] /\ j <= i

Claimed(M, name, t) ==
    IF name \notin DOMAIN M.timelines THEN NoneOpt
    ELSE IF Eligible(M.timelines[name], t) = {} THEN NoneOpt
    ELSE Some(M.timelines[name][Latest(M.timelines[name], t)][2])

IsQuery(ret) == "timestamp" \in DOMAIN ret

\* C28: get_at_time(name, t) returns the value of the entry with the greatest
\* timestamp <= t (the last appended one among equals), None when the name has
\* no timeline or every entry is later than t, and leaves the manager as it was.
C28_GetAtTime ==
    /\ [](pc = "manager" =>
            /\ \A name \in QueryNames, t \in Timestamps :
                  get_at_time(manager, name, t) = Claimed(manager, name, t)
            /\ IsQuery(got) => got.ret = Claimed(manager, got.name, got.timestamp))
    /\ [][pc = "manager" /\ IsQuery(got') => manager' = manager]_vars

\* A query at time 0 on a timeline holding two entries stamped 0 and a later
\* one: the second of the two is returned.
C28_Witness ==
    /\ pc = "manager"
    /\ IsQuery(got)
    /\ got.name = "a"
    /\ got.timestamp = 0
    /\ "a" \in DOMAIN manager.timelines
    /\ manager.timelines["a"] = <<<<0, FluxNumber(Whole(1))>>, <<0, FluxBoolean(TRUE)>>,
                                  <<1, FluxNumber(Whole(1))>>>>
    /\ got.ret = Some(FluxBoolean(TRUE))

====
